---- MODULE Spec2Model ----
(***************************************************************************)
(* A model of the neurostore-next storage system: the storage node's       *)
(* block store and request handler, the gateway's request multiplexer,     *)
(* the proof-of-possession challenge table and the object orchestrator.    *)
(* Each subsystem has its own next-state relation and specification; the   *)
(* variables of the other subsystems stay at their initial values.         *)
(***************************************************************************)
EXTENDS Integers, Sequences, FiniteSets, TLC

VARIABLES
    db,             \* node block store: the sled tree, key -> value or Absent
    store_last,     \* the last block-store call and what it returned
    allowlist,      \* node: peer ids allowed to send commands (empty = all)
    audit_replay_guard, \* node: "cid:nonce" -> insertion time (ms)
    node_now_ms,    \* node: the wall clock read by the handler
    node_last,      \* node: the last command served and its reply
    audit_accepted_at,  \* history: pair -> time of its latest acceptance
    proof_now,      \* gateway: the database clock NOW(), in seconds
    zk_proof_challenges,        \* catalog table, indexed by challenge id
    shard_residency_evidence,   \* catalog table, in insertion order
    object_shards,  \* catalog table: the placement rows
    disclosed,      \* history: the challenge ids returned by /zk/issue-challenge
    daemon,         \* the proof daemon task: where it is in its loop
    submit,         \* the proof-submission handlers in progress
    tick_due,       \* multiplexer: cleanup_interval has fired and is not yet taken
    mux_loop,       \* where the select loop is: selecting, or inside an await
    offered,        \* the requests the gateway's callers submit
    conns,          \* swarm: per peer, the remote addresses of its open connections
    peer_ips,       \* P2pNode.peer_ips
    pending_retrievals, pending_deletions, pending_stores, pending_audits,
    handles,        \* the one-shot reply handles of the submitted requests
    reply_case,     \* response handling on its own: a pending entry, a reply, the ack
    objects,        \* catalog table: the object rows
    put,            \* the put_object handler in progress
    shard_tasks,    \* the spawned shard dispatch tasks that have not finished
    get,            \* the get_object handler in progress
    edge_cache,     \* AppState.edge_cache: cid -> bytes
    del,            \* the delete_object handler in progress
    dispatch,       \* the shard stores of one upload, each with its ack
    pipe,           \* client SDK: one run of the pipeline and of its inverse
    sentinel,       \* sentinel: one peer's model and the last action emitted
    config,         \* client SDK: the last adaptive_config call and its result
    store_threads,  \* node: the block-store call each worker thread is inside
    heat_score,     \* gateway: the heat_score members of the object rows' metadata
    buckets,        \* gateway: the buckets table, name -> owner
    authz           \* gateway: the authorize_bucket calls in progress

storeVars == <<db, store_last>>

nodeVars == <<allowlist, audit_replay_guard, node_now_ms, node_last, audit_accepted_at>>

proofVars == <<proof_now, zk_proof_challenges, shard_residency_evidence, object_shards,
               disclosed, daemon, submit>>

objVars == <<objects, put, shard_tasks, get, edge_cache, del>>

proofTaskVars == <<proof_now, zk_proof_challenges, shard_residency_evidence, disclosed,
                   daemon, submit>>

muxVars == <<tick_due, mux_loop, conns, peer_ips, pending_retrievals,
             pending_deletions, pending_stores, pending_audits, handles>>

vars == <<db, store_last, allowlist, audit_replay_guard, node_now_ms, node_last,
          audit_accepted_at, proof_now, zk_proof_challenges, shard_residency_evidence,
          object_shards, disclosed, daemon, submit, tick_due, mux_loop,
          conns, peer_ips, pending_retrievals, pending_deletions, pending_stores,
          pending_audits, handles, reply_case, objects, put, shard_tasks, get,
          edge_cache, offered, dispatch, del, pipe, sentinel, config, store_threads,
          heat_score, buckets, authz>>

bucketVars == <<buckets, authz>>

clientVars == <<pipe, sentinel, config, bucketVars, store_threads, heat_score>>

Absent == [kind |-> "absent"]

(***************************************************************************)
(* Node block store (crates/node/src/store.rs)                             *)
(***************************************************************************)

\* Bounds of the block-store model.
StoreCapacity == 58

Cids == {"cidA", "cidB"}
Datas == {<< >>, <<7>>, <<7, 9>>}
StoreNonces == {0, 1}

USED_BYTES_KEY == <<"__meta:", "used_bytes">>
CHUNK_PREFIX == "c:"
NonceLen == 12
TagLen == 16

chunk_key(cid) == <<CHUNK_PREFIX, cid>>

legacy_key(cid) == <<"", cid>>

StoreKeys == {USED_BYTES_KEY} \cup {chunk_key(c) : c \in Cids}
                 \cup {legacy_key(c) : c \in Cids}

\* AES-256-GCM under the node key: the payload written is nonce || ciphertext,
\* and the ciphertext is the plaintext's length plus the 16-byte tag.
StoreEncrypt(nonce, raw_data) == [kind |-> "payload", nonce |-> nonce, plain |-> raw_data]

PayloadLen(payload) == NonceLen + Len(payload.plain) + TagLen

saturating_sub(a, b) == IF a >= b THEN a - b ELSE 0

read_used_bytes(d) ==
    IF d[USED_BYTES_KEY] = Absent THEN 0 ELSE d[USED_BYTES_KEY].le_bytes

write_used_bytes(d, bytes) ==
    [d EXCEPT ![USED_BYTES_KEY] = [kind |-> "u64", le_bytes |-> bytes]]

\* A limit no save of this model reaches.
max_bytes_unlimited == 1024 * StoreCapacity

max_bytes == StoreCapacity

projected_bytes_no_existing(used_bytes, existing_len, encrypted_len) ==
    used_bytes + encrypted_len

projected_bytes(used_bytes, existing_len, encrypted_len) ==
    saturating_sub(used_bytes, existing_len) + encrypted_len

save_chunk(cid, raw_data, nonce) ==
    LET key == chunk_key(cid)
        existing_len == IF db[key] = Absent THEN 0 ELSE PayloadLen(db[key])
        used_bytes == read_used_bytes(db)
        encrypted_data == StoreEncrypt(nonce, raw_data)
        projected == projected_bytes(used_bytes, existing_len, PayloadLen(encrypted_data))
    IN  IF projected > max_bytes
        THEN /\ db' = db
             /\ store_last' = [op |-> "save", cid |-> cid, ok |-> FALSE,
                               replaced |-> FALSE]
        ELSE /\ db' = write_used_bytes([db EXCEPT ![key] = encrypted_data], projected)
             /\ store_last' = [op |-> "save", cid |-> cid, ok |-> TRUE,
                               replaced |-> db[key] # Absent]

delete_chunk(cid) ==
    LET key == chunk_key(cid)
    IN  IF db[key] # Absent
        THEN /\ db' = write_used_bytes([db EXCEPT ![key] = Absent],
                          saturating_sub(read_used_bytes(db), PayloadLen(db[key])))
             /\ store_last' = [op |-> "delete", cid |-> cid, ok |-> TRUE,
                               replaced |-> FALSE]
        ELSE /\ db' = db
             /\ store_last' = [op |-> "delete", cid |-> cid, ok |-> FALSE,
                               replaced |-> FALSE]

\* The stored payloads are all at least 12 bytes long and were written by
\* save_chunk under the node key, so decryption returns the plaintext.
retrieve_chunk(cid) ==
    LET raw_lookup == IF db[chunk_key(cid)] # Absent THEN db[chunk_key(cid)]
                      ELSE db[legacy_key(cid)]
    IN  IF raw_lookup # Absent
        THEN [found |-> TRUE, data |-> raw_lookup.plain]
        ELSE [found |-> FALSE, data |-> << >>]

get_used_bytes == read_used_bytes(db)

InitStore ==
    /\ db = [k \in StoreKeys |-> Absent]
    /\ store_last = [op |-> "none", cid |-> "", ok |-> FALSE, replaced |-> FALSE]

StoreSave == \E cid \in Cids, d \in Datas, n \in StoreNonces : save_chunk(cid, d, n)

StoreDelete == \E cid \in Cids : delete_chunk(cid)

NextStore == StoreSave \/ StoreDelete

\* ---- the same calls from several threads ----
\* The store is shared as Arc<SecureBlockStore> with no lock: the bridge runs
\* each store request on a blocking-pool thread while the swarm task serves
\* its own commands.  Each sled call (get, insert, remove) is atomic; the
\* calls of one save_chunk or delete_chunk interleave with those of another.
MaxThreadCalls == 2

StoreThreads == {"t1", "t2"}

ThreadNonce == 0

IdleThread ==
    [pc |-> "idle", cid |-> "", data |-> << >>, existing_len |-> 0, used_bytes |-> 0,
     removed_len |-> 0, ok |-> FALSE, calls |-> 0]

ThreadCall(t) ==
    /\ store_threads[t].pc = "idle"
    /\ store_threads[t].calls < MaxThreadCalls
    /\ \E cid \in Cids :
          \/ \E d \in Datas :
                store_threads' = [store_threads EXCEPT ![t] =
                    [IdleThread EXCEPT !.pc = "save_get", !.cid = cid, !.data = d,
                                       !.calls = store_threads[t].calls + 1]]
          \/ store_threads' = [store_threads EXCEPT ![t] =
                    [IdleThread EXCEPT !.pc = "delete_remove", !.cid = cid,
                                       !.calls = store_threads[t].calls + 1]]
    /\ UNCHANGED db

SaveGetExisting(t) ==
    /\ store_threads[t].pc = "save_get"
    /\ LET key == chunk_key(store_threads[t].cid)
       IN  store_threads' = [store_threads EXCEPT
               ![t].existing_len = IF db[key] = Absent THEN 0 ELSE PayloadLen(db[key]),
               ![t].pc = "save_read"]
    /\ UNCHANGED db

thread_projected(th) ==
    projected_bytes(th.used_bytes, th.existing_len,
                    PayloadLen(StoreEncrypt(ThreadNonce, th.data)))

SaveReadUsed(t) ==
    /\ store_threads[t].pc = "save_read"
    /\ LET th == [store_threads[t] EXCEPT !.used_bytes = read_used_bytes(db)]
       IN  store_threads' = [store_threads EXCEPT ![t] =
               IF thread_projected(th) > max_bytes
               THEN [th EXCEPT !.pc = "idle", !.ok = FALSE]
               ELSE [th EXCEPT !.pc = "save_insert"]]
    /\ UNCHANGED db

SaveInsert(t) ==
    /\ store_threads[t].pc = "save_insert"
    /\ db' = [db EXCEPT ![chunk_key(store_threads[t].cid)] =
                 StoreEncrypt(ThreadNonce, store_threads[t].data)]
    /\ store_threads' = [store_threads EXCEPT ![t].pc = "save_write"]

SaveWriteUsed(t) ==
    /\ store_threads[t].pc = "save_write"
    /\ db' = write_used_bytes(db, thread_projected(store_threads[t]))
    /\ store_threads' = [store_threads EXCEPT ![t].pc = "idle", ![t].ok = TRUE]

DeleteRemove(t) ==
    /\ store_threads[t].pc = "delete_remove"
    /\ LET key == chunk_key(store_threads[t].cid)
       IN  IF db[key] # Absent
           THEN /\ db' = [db EXCEPT ![key] = Absent]
                /\ store_threads' = [store_threads EXCEPT
                       ![t].removed_len = PayloadLen(db[key]), ![t].pc = "delete_read"]
           ELSE /\ db' = db
                /\ store_threads' = [store_threads EXCEPT ![t].pc = "idle", ![t].ok = FALSE]

DeleteReadUsed(t) ==
    /\ store_threads[t].pc = "delete_read"
    /\ store_threads' = [store_threads EXCEPT ![t].used_bytes = read_used_bytes(db),
                                              ![t].pc = "delete_write"]
    /\ UNCHANGED db

DeleteWriteUsed(t) ==
    /\ store_threads[t].pc = "delete_write"
    /\ db' = write_used_bytes(db, saturating_sub(store_threads[t].used_bytes,
                                                 store_threads[t].removed_len))
    /\ store_threads' = [store_threads EXCEPT ![t].pc = "idle", ![t].ok = TRUE]

InitThreads == store_threads = [t \in StoreThreads |-> IdleThread]

NextThreads ==
    \E t \in StoreThreads :
        \/ ThreadCall(t)
        \/ SaveGetExisting(t) \/ SaveReadUsed(t) \/ SaveInsert(t) \/ SaveWriteUsed(t)
        \/ DeleteRemove(t) \/ DeleteReadUsed(t) \/ DeleteWriteUsed(t)


(***************************************************************************)
(* Protocol codec (crates/protocol/src/lib.rs)                             *)
(***************************************************************************)

\* Byte strings that are not text: an empty vector, a protobuf-encoded public
\* key, an ed25519 signature (made by a keypair over a payload).
EmptyBytes == [kind |-> "empty"]
encode_protobuf(keypair) == [kind |-> "pk", key |-> keypair]
sign(keypair, payload) == [kind |-> "sig", by |-> keypair, over |-> payload]

\* The peer id of a public key is derived from the key: one id per keypair.
PeerIdOfKey(keypair) == <<"peer", keypair>>

\* The colon-delimited payload strings; the fields are hex, base58 or decimal
\* text, so a payload determines its fields.
receipt_payload(cid, len, timestamp_ms) == <<"store", cid, len, timestamp_ms>>
proof_payload(cid, len, timestamp_ms) == <<"retrieve", cid, len, timestamp_ms>>
deletion_payload(cid, timestamp_ms) == <<"POW", "DELETE", cid, timestamp_ms>>
audit_payload(cid, challenge_hex, nonce_hex, response_hash, timestamp_ms) ==
    <<"audit", cid, challenge_hex, nonce_hex, response_hash, timestamp_ms>>

verify_signature_any_peer(expected_peer_id, public_key_bytes, signature, payload) ==
    /\ public_key_bytes.kind = "pk"
    /\ signature.kind = "sig"
    /\ signature.by = public_key_bytes.key
    /\ signature.over = payload

verify_signature(expected_peer_id, public_key_bytes, signature, payload) ==
    /\ public_key_bytes.kind = "pk"
    /\ PeerIdOfKey(public_key_bytes.key) = expected_peer_id
    /\ signature.kind = "sig"
    /\ signature.by = public_key_bytes.key
    /\ signature.over = payload

is_fresh_always(res, now_ms, max_age_ms) == TRUE

is_fresh(res, now_ms, max_age_ms) ==
    saturating_sub(now_ms, res.timestamp_ms) <= max_age_ms

verify_receipt(res, expected_peer_id, cid, len) ==
    verify_signature(expected_peer_id, res.public_key, res.signature,
                     receipt_payload(cid, len, res.timestamp_ms))

verify_proof(res, expected_peer_id, cid) ==
    /\ res.found
    /\ verify_signature(expected_peer_id, res.public_key, res.signature,
                        proof_payload(cid, Len(res.data), res.timestamp_ms))

verify_audit(res, expected_peer_id, cid, challenge_hex, nonce_hex) ==
    /\ res.found /\ res.accepted
    /\ verify_signature(expected_peer_id, res.public_key, res.signature,
                        audit_payload(cid, challenge_hex, nonce_hex, res.response_hash,
                                      res.timestamp_ms))

(***************************************************************************)
(* Node request handler (crates/node/src/p2p.rs)                           *)
(***************************************************************************)

\* Bound of the node model: the wall clock stops here.
MaxNodeClockMs == 1200000

NodeClockSteps == {300000}
NodeKeypair == "kNode"
NodeCids == {"cidA"}
NodeDatas == {<<7>>, <<7, 9>>}
ValidHex == {"c1", "c2"}
ChallengeHexes == {"c1", "zz"}
NonceHexes == {"n1", "n2"}
Requesters == {<<"peer", "kGw">>, <<"peer", "kOther">>}
Allowlists == {{}, {<<"peer", "kGw">>}}

NodeCommands ==
    [kind : {"Store"}, cid : NodeCids, data : NodeDatas]
    \cup [kind : {"Retrieve"}, cid : NodeCids]
    \cup [kind : {"Audit"}, cid : NodeCids, challenge_hex : ChallengeHexes,
          nonce_hex : NonceHexes]
    \cup [kind : {"Delete"}, cid : NodeCids]

ReplayTtlMs == 600000

ttl_secs == 10 * 60

ttl_ms == 10 * 60 * 1000

replay_key(cid, nonce_hex) == <<cid, nonce_hex>>

\* hex::decode(..).unwrap_or_default(): text that is not hex decodes to nothing.
decode_hex(h) == IF h \in ValidHex THEN <<h>> ELSE << >>

sha256_hex(parts) == <<"sha256", parts>>

EmptyString == <<"">>

\* A hash of the shard alone, whatever the challenge.
hash_of_data_only(challenge_hex, data) == sha256_hex(<<data>>)

compute_audit_response_hash(challenge_hex, data) ==
    sha256_hex(<<decode_hex(challenge_hex), data>>)

\* The guard after register_audit_nonce ran at `now`, and what it returned.
retained(map, now) ==
    [k \in {x \in DOMAIN map : saturating_sub(now, map[x]) <= ttl_ms} |-> map[k]]

register_audit_nonce(map, cid, nonce_hex, now) ==
    LET key == replay_key(cid, nonce_hex)
        kept == retained(map, now)
    IN  IF key \in DOMAIN kept
        THEN [accepted |-> FALSE, map |-> kept]
        ELSE [accepted |-> TRUE,
              map |-> [k \in DOMAIN kept \cup {key} |->
                          IF k = key THEN now ELSE kept[k]]]

\* A node that serves every peer.
is_peer_allowed_open(list, peer) == TRUE

is_peer_allowed(list, peer) == list = {} \/ peer \in list

deny_chunk_command(cmd, timestamp_ms) ==
    CASE cmd.kind = "Store" ->
            [kind |-> "Store", stored |-> FALSE, timestamp_ms |-> timestamp_ms,
             signature |-> EmptyBytes, public_key |-> EmptyBytes]
      [] cmd.kind = "Retrieve" ->
            [kind |-> "Retrieve", found |-> FALSE, data |-> << >>,
             timestamp_ms |-> timestamp_ms,
             signature |-> EmptyBytes, public_key |-> EmptyBytes]
      [] cmd.kind = "Audit" ->
            [kind |-> "Audit", found |-> FALSE, accepted |-> FALSE,
             response_hash |-> EmptyString, timestamp_ms |-> timestamp_ms,
             signature |-> EmptyBytes, public_key |-> EmptyBytes]
      [] cmd.kind = "Delete" ->
            [kind |-> "Delete", deleted |-> FALSE, timestamp_ms |-> timestamp_ms,
             signature |-> EmptyBytes, public_key |-> EmptyBytes]

\* handle_chunk_command, one arm per command kind.  Each arm is the whole
\* handler: the block-store call, the reply and its signature.
handle_store(peer, cmd) ==
    \E n \in StoreNonces :
        /\ save_chunk(cmd.cid, cmd.data, n)
        /\ node_last' =
             [peer |-> peer, cmd |-> cmd, read_store |-> FALSE, prev_accept |-> -1,
              reply |-> [kind |-> "Store", stored |-> store_last'.ok,
                         timestamp_ms |-> node_now_ms,
                         signature |-> sign(NodeKeypair,
                              receipt_payload(cmd.cid, Len(cmd.data), node_now_ms)),
                         public_key |-> encode_protobuf(NodeKeypair)]]
        /\ UNCHANGED <<allowlist, audit_replay_guard, node_now_ms, audit_accepted_at>>

handle_retrieve(peer, cmd) ==
    LET maybe == retrieve_chunk(cmd.cid)
    IN  /\ node_last' =
             [peer |-> peer, cmd |-> cmd, read_store |-> TRUE, prev_accept |-> -1,
              reply |-> [kind |-> "Retrieve", found |-> maybe.found, data |-> maybe.data,
                         timestamp_ms |-> node_now_ms,
                         signature |-> sign(NodeKeypair,
                              proof_payload(cmd.cid, Len(maybe.data), node_now_ms)),
                         public_key |-> encode_protobuf(NodeKeypair)]]
        /\ UNCHANGED <<db, store_last, allowlist, audit_replay_guard, node_now_ms,
                       audit_accepted_at>>

handle_audit(peer, cmd) ==
    LET reg == register_audit_nonce(audit_replay_guard, cmd.cid, cmd.nonce_hex,
                                    node_now_ms)
        accepted == reg.accepted
        maybe == retrieve_chunk(cmd.cid)
        response_hash == IF accepted /\ maybe.found
                         THEN compute_audit_response_hash(cmd.challenge_hex, maybe.data)
                         ELSE EmptyString
        key == replay_key(cmd.cid, cmd.nonce_hex)
    IN  /\ audit_replay_guard' = reg.map
        /\ node_last' =
             [peer |-> peer, cmd |-> cmd, read_store |-> TRUE,
              prev_accept |-> audit_accepted_at[key],
              reply |-> [kind |-> "Audit", found |-> maybe.found, accepted |-> accepted,
                         response_hash |-> response_hash,
                         timestamp_ms |-> node_now_ms,
                         signature |-> sign(NodeKeypair,
                              audit_payload(cmd.cid, cmd.challenge_hex, cmd.nonce_hex,
                                            response_hash, node_now_ms)),
                         public_key |-> encode_protobuf(NodeKeypair)]]
        /\ audit_accepted_at' = IF accepted
                                THEN [audit_accepted_at EXCEPT ![key] = node_now_ms]
                                ELSE audit_accepted_at
        /\ UNCHANGED <<db, store_last, allowlist, node_now_ms>>

handle_delete(peer, cmd) ==
    /\ delete_chunk(cmd.cid)
    /\ node_last' =
         [peer |-> peer, cmd |-> cmd, read_store |-> FALSE, prev_accept |-> -1,
          reply |-> [kind |-> "Delete", deleted |-> store_last'.ok,
                     timestamp_ms |-> node_now_ms,
                     signature |-> sign(NodeKeypair,
                          deletion_payload(cmd.cid, node_now_ms)),
                     public_key |-> encode_protobuf(NodeKeypair)]]
    /\ UNCHANGED <<allowlist, audit_replay_guard, node_now_ms, audit_accepted_at>>

handle_chunk_command(peer, cmd) ==
    \/ cmd.kind = "Store" /\ handle_store(peer, cmd)
    \/ cmd.kind = "Retrieve" /\ handle_retrieve(peer, cmd)
    \/ cmd.kind = "Audit" /\ handle_audit(peer, cmd)
    \/ cmd.kind = "Delete" /\ handle_delete(peer, cmd)

\* The swarm loop's arm for an inbound request.
NodeServe ==
    \E peer \in Requesters, cmd \in NodeCommands :
        \/ /\ is_peer_allowed(allowlist, peer)
           /\ handle_chunk_command(peer, cmd)
        \/ /\ ~is_peer_allowed(allowlist, peer)
           /\ node_last' = [peer |-> peer, cmd |-> cmd, read_store |-> FALSE,
                            prev_accept |-> -1,
                            reply |-> deny_chunk_command(cmd, node_now_ms)]
           /\ UNCHANGED <<db, store_last, allowlist, audit_replay_guard, node_now_ms,
                          audit_accepted_at>>

NodeClockAdvance ==
    \E d \in NodeClockSteps :
        /\ node_now_ms + d <= MaxNodeClockMs
        /\ node_now_ms' = node_now_ms + d
        /\ UNCHANGED <<db, store_last, allowlist, audit_replay_guard, node_last,
                       audit_accepted_at>>

ReplayKeys == {replay_key(c, n) : c \in NodeCids, n \in NonceHexes}

InitNode ==
    /\ allowlist \in Allowlists
    /\ audit_replay_guard = << >>
    /\ node_now_ms = 0
    /\ node_last = [peer |-> <<"peer", "">>, cmd |-> [kind |-> "None"],
                    read_store |-> FALSE, prev_accept |-> -1,
                    reply |-> [kind |-> "None"]]
    /\ audit_accepted_at = [k \in ReplayKeys |-> -1]

NextNode == NodeServe \/ NodeClockAdvance

(***************************************************************************)
(* Proof-of-possession subsystem (crates/gateway/src/proofs.rs)            *)
(*                                                                         *)
(* Every SQL statement is one step: a handler is suspended at each         *)
(* `.await`, and the daemon and the HTTP handlers interleave there.        *)
(***************************************************************************)

\* Bounds of the proof model.
MaxChallenges == 1
MaxProofTime == 120

ProofClockSteps == {60}
PROOF_CHALLENGE_TTL_SECS == 90
PROOF_BATCH_SIZE == 8
DaemonSleepSecs == 60
AuditAckTimeoutSecs == 12
ProofSkewMs == 120000
MinSnarkHashLen == 32

Submitters == {"s1", "s2"}
ShardBytes == <<7, 9>>
ForgedHash == <<"sha256", <<"forged">>>>
ShortHash == <<"short">>

\* The placement row the audits of this model target: one shard of a stored
\* object, held by the node whose keypair is NodeKeypair.
TargetRow ==
    [object_cid |-> "QmObj", shard_index |-> 0, shard_cid |-> "QmObj-shard-0",
     peer_id |-> PeerIdOfKey(NodeKeypair), country_code |-> "DE",
     last_verified_at |-> 0, last_challenge_id |-> 0]

\* String::len of a response hash: hex SHA-256 text has 64 characters.
HashLen(h) == IF h[1] = "sha256" THEN 64 ELSE IF h = EmptyString THEN 0 ELSE 5

random_hex(id) == <<"rnd", id>>

\* compute_audit_response_hash over the stored shard, for a challenge that is
\* the hex text of 32 random bytes (it always decodes).
honest_response_hash(challenge_hex) == sha256_hex(<<<<challenge_hex>>, ShardBytes>>)

hex_encode(bytes) == [kind |-> "hex", bytes |-> bytes]
BadHex == [kind |-> "badhex"]

\* Appends the pending row; the id, the challenge and the entropy are fresh.
create_challenge_for_target(target) ==
    LET id == Len(zk_proof_challenges) + 1
        prior == {i \in 1..Len(shard_residency_evidence) :
                     /\ shard_residency_evidence[i].shard_cid = target.shard_cid
                     /\ shard_residency_evidence[i].peer_id = target.peer_id}
        chained_entropy ==
            IF prior = {} THEN <<"genesis", random_hex(id)>>
            ELSE <<shard_residency_evidence[
                       CHOOSE i \in prior : \A j \in prior : j <= i].response_hash,
                   random_hex(id)>>
    IN  Append(zk_proof_challenges,
               [challenge_id |-> id, object_cid |-> target.object_cid,
                shard_cid |-> target.shard_cid, shard_index |-> target.shard_index,
                peer_id |-> target.peer_id, country_code |-> target.country_code,
                challenge_hex |-> random_hex(id),
                nonce_hex |-> sha256_hex(chained_entropy),
                status |-> "pending",
                expires_at |-> proof_now + PROOF_CHALLENGE_TTL_SECS,
                response_hash |-> EmptyString, failure_reason |-> ""])

\* An UPDATE that records the reason and leaves the status column alone.
mark_challenge_reason_only(challenge_id, reason) ==
    [i \in DOMAIN zk_proof_challenges |->
        IF zk_proof_challenges[i].challenge_id = challenge_id
        THEN [zk_proof_challenges[i] EXCEPT !.failure_reason = reason]
        ELSE zk_proof_challenges[i]]

mark_challenge_failed(challenge_id, reason) ==
    [i \in DOMAIN zk_proof_challenges |->
        IF zk_proof_challenges[i].challenge_id = challenge_id
        THEN [zk_proof_challenges[i] EXCEPT !.status = "failed",
                                            !.failure_reason = reason]
        ELSE zk_proof_challenges[i]]

\* finalize_verified_challenge is three statements, run one after another.
finalize_update_challenge(challenge_id, response_hash) ==
    [i \in DOMAIN zk_proof_challenges |->
        IF zk_proof_challenges[i].challenge_id = challenge_id
        THEN [zk_proof_challenges[i] EXCEPT !.status = "verified",
                                            !.response_hash = response_hash,
                                            !.failure_reason = ""]
        ELSE zk_proof_challenges[i]]

finalize_insert_evidence(challenge_id, target, response_hash, proof_timestamp_ms) ==
    Append(shard_residency_evidence,
           [challenge_id |-> challenge_id, object_cid |-> target.object_cid,
            shard_cid |-> target.shard_cid, shard_index |-> target.shard_index,
            peer_id |-> target.peer_id, response_hash |-> response_hash,
            proof_timestamp_ms |-> proof_timestamp_ms])

finalize_update_shard(challenge_id, target) ==
    {IF r.object_cid = target.object_cid /\ r.shard_index = target.shard_index
     THEN [r EXCEPT !.last_verified_at = proof_now,
                    !.last_challenge_id = challenge_id,
                    !.country_code = target.country_code]
     ELSE r : r \in object_shards}

expire_stale_challenges ==
    [i \in DOMAIN zk_proof_challenges |->
        IF /\ zk_proof_challenges[i].status = "pending"
           /\ zk_proof_challenges[i].expires_at < proof_now
        THEN [zk_proof_challenges[i] EXCEPT
                 !.status = "expired",
                 !.failure_reason = "challenge expired before verification"]
        ELSE zk_proof_challenges[i]]

ShardTargetOf(row) ==
    [object_cid |-> row.object_cid, shard_cid |-> row.shard_cid,
     shard_index |-> row.shard_index, peer_id |-> row.peer_id,
     country_code |-> row.country_code]

IdleDaemon(since) == [pc |-> "sleep", since |-> since, challenge_id |-> 0,
                      target |-> ShardTargetOf(TargetRow), ack_hash |-> EmptyString,
                      ack_timestamp_ms |-> 0, reason |-> ""]

\* ---- the daemon loop ----

\* sleep(60 s) is over: expire_stale_challenges, then the target query.
DaemonWake ==
    /\ daemon.pc = "sleep"
    /\ proof_now >= daemon.since + DaemonSleepSecs
    /\ zk_proof_challenges' = expire_stale_challenges
    /\ daemon' = [daemon EXCEPT !.pc = "select"]
    /\ UNCHANGED <<proof_now, shard_residency_evidence, object_shards, disclosed, submit>>

\* The batch query; the catalog of this model holds at most one placement
\* row, so the batch is one target (or none: back to sleep).
DaemonSelect ==
    /\ daemon.pc = "select"
    /\ \/ /\ object_shards = {}
          /\ daemon' = IdleDaemon(proof_now)
       \/ /\ Cardinality(object_shards) <= PROOF_BATCH_SIZE
          /\ \E row \in object_shards :
                daemon' = [daemon EXCEPT !.pc = "issue", !.target = ShardTargetOf(row)]
    /\ UNCHANGED <<proof_now, zk_proof_challenges, shard_residency_evidence,
                   object_shards, disclosed, submit>>

\* create_challenge_for_target, then the Audit request is sent to the
\* multiplexer (or the channel is closed: "p2p dispatch failure").
DaemonIssue ==
    /\ daemon.pc = "issue"
    /\ Len(zk_proof_challenges) < MaxChallenges
    /\ zk_proof_challenges' = create_challenge_for_target(daemon.target)
    /\ \/ daemon' = [daemon EXCEPT !.pc = "await", !.since = proof_now,
                                   !.challenge_id = Len(zk_proof_challenges) + 1]
       \/ daemon' = [daemon EXCEPT !.pc = "fail", !.reason = "p2p dispatch failure",
                                   !.challenge_id = Len(zk_proof_challenges) + 1]
    /\ UNCHANGED <<proof_now, shard_residency_evidence, object_shards, disclosed, submit>>

\* The round cannot issue a challenge (the model's challenge bound is used
\* up): the daemon goes back to sleep.
DaemonIdleRound ==
    /\ daemon.pc = "issue"
    /\ Len(zk_proof_challenges) >= MaxChallenges
    /\ daemon' = IdleDaemon(proof_now)
    /\ UNCHANGED <<proof_now, zk_proof_challenges, shard_residency_evidence,
                   object_shards, disclosed, submit>>

\* timeout(12 s, rx): the ack, or no ack in time.  A verified ack carries
\* the response hash the node signed, which the multiplexer does not recompute,
\* and the node's timestamp, fresh at the multiplexer.
DaemonAck ==
    /\ daemon.pc = "await"
    /\ \/ \E h \in {honest_response_hash(
                         zk_proof_challenges[daemon.challenge_id].challenge_hex),
                     ForgedHash} :
             daemon' = [daemon EXCEPT !.pc = "fin1", !.ack_hash = h,
                                      !.ack_timestamp_ms = proof_now * 1000]
       \/ daemon' = [daemon EXCEPT !.pc = "fail",
                                   !.reason = "audit signature/response invalid"]
       \/ /\ proof_now >= daemon.since + AuditAckTimeoutSecs
          /\ daemon' = [daemon EXCEPT !.pc = "fail",
                                      !.reason = "audit response timeout"]
    /\ UNCHANGED <<proof_now, zk_proof_challenges, shard_residency_evidence,
                   object_shards, disclosed, submit>>

DaemonMarkFailed ==
    /\ daemon.pc = "fail"
    /\ zk_proof_challenges' = mark_challenge_failed(daemon.challenge_id, daemon.reason)
    /\ daemon' = IdleDaemon(proof_now)
    /\ UNCHANGED <<proof_now, shard_residency_evidence, object_shards, disclosed, submit>>

DaemonFinalize ==
    \/ /\ daemon.pc = "fin1"
       /\ zk_proof_challenges' =
             finalize_update_challenge(daemon.challenge_id, daemon.ack_hash)
       /\ daemon' = [daemon EXCEPT !.pc = "fin2"]
       /\ UNCHANGED <<proof_now, shard_residency_evidence, object_shards, disclosed, submit>>
    \/ /\ daemon.pc = "fin2"
       /\ shard_residency_evidence' =
             finalize_insert_evidence(daemon.challenge_id, daemon.target,
                                      daemon.ack_hash, daemon.ack_timestamp_ms)
       /\ daemon' = [daemon EXCEPT !.pc = "fin3"]
       /\ UNCHANGED <<proof_now, zk_proof_challenges, object_shards, disclosed, submit>>
    \/ /\ daemon.pc = "fin3"
       /\ object_shards' = finalize_update_shard(daemon.challenge_id, daemon.target)
       /\ daemon' = IdleDaemon(proof_now)
       /\ UNCHANGED <<proof_now, zk_proof_challenges, shard_residency_evidence, disclosed, submit>>

\* ---- POST /zk/issue-challenge ----
issue_zk_challenge ==
    /\ Len(zk_proof_challenges) < MaxChallenges
    /\ \E row \in object_shards :
          zk_proof_challenges' = create_challenge_for_target(ShardTargetOf(row))
    /\ disclosed' = disclosed \cup {Len(zk_proof_challenges) + 1}
    /\ UNCHANGED <<proof_now, shard_residency_evidence, object_shards, daemon, submit>>

\* ---- POST /zk/submit-proof ----

\* The submissions tried against challenge c, whose id the issue endpoint
\* returned (the ids are random text, and the daemon's never leave the gateway):
\* the proof an honest node builds, and the same proof with one field off.
SignedBy(keypair, p) ==
    [p EXCEPT !.signature_hex =
                  hex_encode(sign(keypair,
                      audit_payload(p.shard_cid, p.challenge_hex, p.nonce_hex,
                                    p.response_hash, p.timestamp_ms))),
              !.public_key_hex = hex_encode(encode_protobuf(keypair))]

ProofSubmissions(c) ==
    LET r == zk_proof_challenges[c]
        now_ms == proof_now * 1000
        base == SignedBy(NodeKeypair,
                    [token |-> "good", challenge_id |-> c, node_id |-> r.peer_id,
                     shard_cid |-> r.shard_cid, challenge_hex |-> r.challenge_hex,
                     nonce_hex |-> r.nonce_hex,
                     response_hash |-> honest_response_hash(r.challenge_hex),
                     timestamp_ms |-> now_ms,
                     signature_hex |-> BadHex, public_key_hex |-> BadHex])
    IN  {base,
         SignedBy(NodeKeypair, [base EXCEPT !.response_hash = ShortHash]),
         SignedBy(NodeKeypair, [base EXCEPT !.nonce_hex = sha256_hex(<<"other">>)]),
         SignedBy(NodeKeypair, [base EXCEPT !.challenge_hex = random_hex(0)]),
         SignedBy(NodeKeypair, [base EXCEPT !.shard_cid = "QmOther-shard-0"]),
         SignedBy(NodeKeypair, [base EXCEPT !.timestamp_ms = now_ms + ProofSkewMs + 1]),
         SignedBy(NodeKeypair,
                  [base EXCEPT !.timestamp_ms = saturating_sub(now_ms, ProofSkewMs + 1)]),
         SignedBy("kOther", [base EXCEPT !.node_id = PeerIdOfKey("kOther")]),
         [base EXCEPT !.public_key_hex = hex_encode(encode_protobuf("kOther"))],
         [base EXCEPT !.signature_hex =
              hex_encode(sign("kOther",
                  audit_payload(base.shard_cid, base.challenge_hex, base.nonce_hex,
                                base.response_hash, base.timestamp_ms)))],
         [base EXCEPT !.signature_hex = BadHex],
         [base EXCEPT !.public_key_hex = BadHex],
         [base EXCEPT !.public_key_hex = hex_encode(EmptyBytes)],
         [base EXCEPT !.token = "bad"],
         [base EXCEPT !.challenge_id = 0]}

\* A handler that is not running; one that returns (200, 400, 401) is back here.
IdleSubmit == [pc |-> "idle", payload |-> [kind |-> "none"],
               target |-> ShardTargetOf(TargetRow)]

verify_zk_snark_circuit(shard_cid, challenge_hex, nonce_hex, response_hash) ==
    HashLen(response_hash) >= MinSnarkHashLen

\* The checks of verify_zk_proof that follow the second SELECT, in the
\* code's order; "ok" when all pass.
proof_checks(payload, expected_challenge, expected_nonce) ==
    IF payload.challenge_hex # expected_challenge \/ payload.nonce_hex # expected_nonce
    THEN "challenge mismatch"
    ELSE IF payload.signature_hex.kind # "hex" THEN "invalid signature encoding"
    ELSE IF payload.public_key_hex.kind # "hex" THEN "invalid public key encoding"
    ELSE IF payload.public_key_hex.bytes.kind # "pk" THEN "invalid public key"
    ELSE IF PeerIdOfKey(payload.public_key_hex.bytes.key) # payload.node_id
    THEN "peer identity mismatch"
    ELSE IF ~ /\ payload.signature_hex.bytes.kind = "sig"
              /\ payload.signature_hex.bytes.by = payload.public_key_hex.bytes.key
              /\ payload.signature_hex.bytes.over =
                    audit_payload(payload.shard_cid, payload.challenge_hex,
                                  payload.nonce_hex, payload.response_hash,
                                  payload.timestamp_ms)
    THEN "invalid proof signature"
    ELSE IF ~verify_zk_snark_circuit(payload.shard_cid, payload.challenge_hex,
                                     payload.nonce_hex, payload.response_hash)
    THEN "invalid ZK proof"
    ELSE "ok"

\* Token and timestamp checks, then the SELECT of the pending, unexpired row.
SubmitBegin(s) ==
    /\ submit[s].pc = "idle"
    /\ \E c \in disclosed : \E payload \in ProofSubmissions(c) :
          LET now_ms == proof_now * 1000
              rows == {i \in DOMAIN zk_proof_challenges :
                          /\ zk_proof_challenges[i].challenge_id = payload.challenge_id
                          /\ zk_proof_challenges[i].status = "pending"
                          /\ zk_proof_challenges[i].expires_at > proof_now}
          IN  submit' = [submit EXCEPT ![s] =
                 IF payload.token # "good" THEN IdleSubmit
                 ELSE IF \/ payload.timestamp_ms > now_ms + ProofSkewMs
                         \/ saturating_sub(now_ms, payload.timestamp_ms) > ProofSkewMs
                 THEN IdleSubmit
                 ELSE IF rows = {} THEN IdleSubmit
                 ELSE LET target == ShardTargetOf(zk_proof_challenges[CHOOSE i \in rows : TRUE])
                      IN  IF \/ payload.node_id # target.peer_id
                             \/ payload.shard_cid # target.shard_cid
                          THEN IdleSubmit
                          ELSE [pc |-> "check", payload |-> payload,
                                target |-> target]]
    /\ UNCHANGED <<proof_now, zk_proof_challenges, shard_residency_evidence,
                   object_shards, disclosed, daemon>>

\* The SELECT of (challenge_hex, nonce_hex), then every remaining check.
SubmitCheck(s) ==
    /\ submit[s].pc = "check"
    /\ LET payload == submit[s].payload
           row == zk_proof_challenges[payload.challenge_id]
           verdict == proof_checks(payload, row.challenge_hex, row.nonce_hex)
       IN  submit' = [submit EXCEPT ![s] =
              IF verdict = "ok" THEN [@ EXCEPT !.pc = "fin1"]
              ELSE IF verdict = "invalid ZK proof" THEN [@ EXCEPT !.pc = "fail"]
              ELSE IdleSubmit]
    /\ UNCHANGED <<proof_now, zk_proof_challenges, shard_residency_evidence,
                   object_shards, disclosed, daemon>>

SubmitMarkFailed(s) ==
    /\ submit[s].pc = "fail"
    /\ zk_proof_challenges' =
          mark_challenge_failed(submit[s].payload.challenge_id,
                                "ZK-SNARK Cryptographic Circuit Verification Failed")
    /\ submit' = [submit EXCEPT ![s] = IdleSubmit]
    /\ UNCHANGED <<proof_now, shard_residency_evidence, object_shards, disclosed, daemon>>

SubmitFinalize(s) ==
    \/ /\ submit[s].pc = "fin1"
       /\ zk_proof_challenges' =
             finalize_update_challenge(submit[s].payload.challenge_id,
                                       submit[s].payload.response_hash)
       /\ submit' = [submit EXCEPT ![s].pc = "fin2"]
       /\ UNCHANGED <<proof_now, shard_residency_evidence, object_shards, disclosed, daemon>>
    \/ /\ submit[s].pc = "fin2"
       /\ shard_residency_evidence' =
             finalize_insert_evidence(submit[s].payload.challenge_id, submit[s].target,
                                      submit[s].payload.response_hash,
                                      submit[s].payload.timestamp_ms)
       /\ submit' = [submit EXCEPT ![s].pc = "fin3"]
       /\ UNCHANGED <<proof_now, zk_proof_challenges, object_shards, disclosed, daemon>>
    \/ /\ submit[s].pc = "fin3"
       /\ object_shards' =
             finalize_update_shard(submit[s].payload.challenge_id, submit[s].target)
       /\ submit' = [submit EXCEPT ![s] = IdleSubmit]
       /\ UNCHANGED <<proof_now, zk_proof_challenges, shard_residency_evidence, disclosed, daemon>>

verify_zk_proof ==
    \E s \in Submitters :
        SubmitBegin(s) \/ SubmitCheck(s) \/ SubmitMarkFailed(s) \/ SubmitFinalize(s)

ProofClockAdvance ==
    /\ \E step \in ProofClockSteps :
          /\ proof_now + step <= MaxProofTime
          /\ proof_now' = proof_now + step
    /\ UNCHANGED <<zk_proof_challenges, shard_residency_evidence, object_shards,
                   disclosed, daemon, submit>>

InitProofs ==
    /\ proof_now = 0
    /\ zk_proof_challenges = << >>
    /\ shard_residency_evidence = << >>
    /\ disclosed = {}
    /\ daemon = IdleDaemon(0)
    /\ submit = [s \in Submitters |-> IdleSubmit]

NextProofs ==
    \/ DaemonWake \/ DaemonSelect \/ DaemonIssue \/ DaemonIdleRound \/ DaemonAck
    \/ DaemonMarkFailed \/ DaemonFinalize
    \/ issue_zk_challenge \/ verify_zk_proof \/ ProofClockAdvance

RECURSIVE SumLens(_, _)
SumLens(d, cids) ==
    IF cids = {} THEN 0
    ELSE LET c == CHOOSE x \in cids : TRUE
         IN  (IF d[chunk_key(c)] = Absent THEN 0 ELSE PayloadLen(d[chunk_key(c)]))
             + SumLens(d, cids \ {c})

\* C10: after any sequence of save and delete calls, the used-bytes counter
\* equals the sum of the lengths of the ciphertexts currently stored.
C10_UsedBytesIsSum == get_used_bytes = SumLens(db, Cids)

\* A save that replaced an existing ciphertext while another one is stored.
C10_Witness ==
    /\ store_last.op = "save" /\ store_last.ok /\ store_last.replaced
    /\ \A c \in Cids : db[chunk_key(c)] # Absent
    /\ \E c \in Cids : PayloadLen(db[chunk_key(c)]) # PayloadLen(db[chunk_key("cidA")])

\* C5: an audit of a (cid, nonce) pair that the handler accepted at most
\* 10 minutes earlier is answered with accepted = FALSE.
C5_ReplayRejected ==
    (/\ node_last.cmd.kind = "Audit"
     /\ node_last.prev_accept >= 0
     /\ node_last.reply.timestamp_ms - node_last.prev_accept <= ReplayTtlMs)
    => ~node_last.reply.accepted

\* A replay exactly at the end of the TTL, from an allowed peer, was rejected.
C5_Witness ==
    /\ node_last.cmd.kind = "Audit"
    /\ is_peer_allowed(allowlist, node_last.peer)
    /\ node_last.prev_accept >= 0
    /\ node_last.reply.timestamp_ms - node_last.prev_accept = ReplayTtlMs
    /\ ~node_last.reply.accepted

(***************************************************************************)
(* Gateway multiplexer (crates/gateway/src/p2p.rs)                         *)
(*                                                                         *)
(* One task runs the select loop: an arm runs to its end before the next   *)
(* event is taken, and while an arm is inside an await nothing else of     *)
(* the loop runs.  A request is taken from the channel by the arm that     *)
(* handles it; its position in the channel before that is not state.       *)
(***************************************************************************)

\* Bounds of the multiplexer model.
MaxRequests == 2
MaxDbStallSecs == 3
MaxConns == 1

RequestDeadlineSecs == 8
AuditDeadlineSecs == 10
CleanupPeriodSecs == 1
MaxReplyAgeMs == 30000
WallClockMs == 100000

GatewayPeers == {PeerIdOfKey("kNode")}
KeyOf(peer) == peer[2]

\* The IP addresses a peer dials from; NoIp is a remote address without an
\* Ip4 or Ip6 component.
NoIp == "none"
AddrsOf(peer) ==
    CASE KeyOf(peer) = "kNode" -> {"ipDE"}
      [] KeyOf(peer) = "kUS" -> {"ipUS"}
      [] OTHER -> {"ipFR", "ipUS", "ipUnlisted"}

\* The GeoIP country database.
GeoIpDb == [ip \in {"ipDE", "ipFR", "ipUS"} |->
               CASE ip = "ipDE" -> "DE" [] ip = "ipFR" -> "FR" [] OTHER -> "US"]
NotPeerText == <<"text", "not-a-peer-id">>
NoPeer == <<"text", "">>
parses_as_peer(text) == text[1] = "peer"

\* The addresses in numbers, and GeoFenceManager::get_asn_org: "AS-" and the
\* first two octets.
Octets == [ip \in {"ipDE", "ipFR", "ipUS", "ipUnlisted"} |->
              CASE ip = "ipDE" -> <<5, 9, 0, 1>>
                [] ip = "ipFR" -> <<51, 15, 0, 1>>
                [] ip = "ipUS" -> <<3, 80, 0, 1>>
                [] OTHER -> <<10, 0, 0, 1>>]
get_asn_org(ip) == <<"AS", Octets[ip][1], Octets[ip][2]>>

get_country_code(ip) == IF ip \in DOMAIN GeoIpDb THEN GeoIpDb[ip] ELSE "XX"

eu_countries == {"AT", "BE", "BG", "CY", "CZ", "DE", "DK", "EE", "ES", "FI", "FR", "GR",
                 "HR", "HU", "IE", "IT", "LT", "LU", "LV", "MT", "NL", "PL", "PT", "RO",
                 "SE", "SI", "SK"}

is_authorized_any(node_ip, required_jurisdiction) == TRUE

is_authorized(node_ip, required_jurisdiction) ==
    IF required_jurisdiction = "GLOBAL" \/ required_jurisdiction = ""
    THEN TRUE
    ELSE IF required_jurisdiction = "EU"
         THEN get_country_code(node_ip) \in eu_countries
         ELSE get_country_code(node_ip) = required_jurisdiction

MuxCid == "cidA"
MuxData == <<7, 9>>

SwarmRequests ==
    {[kind |-> "Store", command |-> "Store", geofence |-> "GLOBAL"],
     [kind |-> "Store", command |-> "Store", geofence |-> "US"],
     [kind |-> "Store", command |-> "Retrieve", geofence |-> "GLOBAL"]}
    \cup [kind : {"Retrieve"}, preferred_peer_id : {NoPeer, PeerIdOfKey("kNode")}]
    \cup [kind : {"Delete"}]
    \cup [kind : {"Audit"}, peer_id : {PeerIdOfKey("kNode"), NotPeerText}]

\* chrono::Utc::now() when a response is handled.  The freshness check reads
\* only the reply's age, and the replies come at every age of interest, so
\* one reading of the wall clock stands for all.
mux_now_ms == WallClockMs

connected_peers == {p \in DOMAIN conns : conns[p] # << >>}

\* The negative acks, one shape per request kind.
NackStore(peer_text, country_code) ==
    [kind |-> "StoreAck", stored |-> FALSE, peer_id |-> peer_text,
     country_code |-> country_code, signature_valid |-> FALSE, timestamp_ms |-> 0]
NackRetrieve(peer_text) ==
    [kind |-> "RetrieveAck", data |-> [kind |-> "None"], peer_id |-> peer_text,
     signature_valid |-> FALSE, timestamp_ms |-> 0]
NackAudit(peer_text, country_code) ==
    [kind |-> "AuditAck", verified |-> FALSE, peer_id |-> peer_text,
     country_code |-> country_code, response_hash |-> EmptyString,
     signature_valid |-> FALSE, timestamp_ms |-> 0,
     signature_hex |-> EmptyString, public_key_hex |-> EmptyString]
DeleteAck(deleted) == [kind |-> "DeleteAck", deleted |-> deleted]

\* A submitted request with its reply handle: the acks its receiver got, and
\* whether the caller has dropped the receiver.
NewHandle(req) == [req |-> req, rx |-> "open", acks |-> << >>]

\* A send that reaches the handle whether or not its receiver is there.
tx_send_to_any(hs, h, ack) == [hs EXCEPT ![h].acks = Append(@, ack)]

\* tx.send(ack): delivered unless the receiver is gone.
tx_send(hs, h, ack) ==
    [hs EXCEPT ![h].acks = IF hs[h].rx = "open" THEN Append(@, ack) ELSE @]


insert_pending(map, id, entry) ==
    [k \in DOMAIN map \cup {id} |-> IF k = id THEN entry ELSE map[k]]
remove_pending(map, ids) == [k \in DOMAIN map \ ids |-> map[k]]

country_of_peer(peer) ==
    IF peer \in DOMAIN peer_ips THEN get_country_code(peer_ips[peer]) ELSE "XX"

\* ---- requests taken from the channel ----

\* Every request arm starts here: the loop is selecting and the request is
\* the next one in the channel.
TakeRequest(req) ==
    /\ mux_loop.pc = "select"
    /\ Len(handles) < MaxRequests
    /\ req \in offered

\* The id of the request taken now; send_request gives it to the pending entry.
NewId == Len(handles) + 1

MuxStore ==
    \E req \in offered :
        /\ TakeRequest(req) /\ req.kind = "Store"
        /\ LET authorized_peers ==
                   {q \in connected_peers :
                       q \in DOMAIN peer_ips /\ is_authorized(peer_ips[q], req.geofence)}
               nack == tx_send(Append(handles, NewHandle(req)), NewId,
                               NackStore(NoPeer, "XX"))
           IN  IF req.command # "Store" \/ authorized_peers = {}
               THEN handles' = nack /\ UNCHANGED pending_stores
               ELSE \E peer_id \in authorized_peers :
                       /\ handles' = Append(handles, NewHandle(req))
                       /\ pending_stores' = insert_pending(pending_stores, NewId,
                             [deadline |-> RequestDeadlineSecs,
                              peer_id |-> peer_id,
                              country_code |-> country_of_peer(peer_id),
                              cid |-> MuxCid, len |-> Len(MuxData)])
        /\ UNCHANGED <<tick_due, mux_loop, conns, peer_ips,
                       pending_retrievals, pending_deletions, pending_audits>>

\* The Retrieve arm up to its await: with a connected preferred peer the
\* request is sent; otherwise the loop awaits the super-node query.
MuxRetrieve ==
    \E req \in offered :
        /\ TakeRequest(req) /\ req.kind = "Retrieve"
        /\ handles' = Append(handles, NewHandle(req))
        /\ IF parses_as_peer(req.preferred_peer_id)
              /\ req.preferred_peer_id \in connected_peers
           THEN /\ pending_retrievals' = insert_pending(pending_retrievals, NewId,
                      [deadline |-> RequestDeadlineSecs,
                       peer_id |-> req.preferred_peer_id, cid |-> MuxCid])
                /\ UNCHANGED mux_loop
           ELSE /\ mux_loop' = [pc |-> "db_query", h |-> NewId, waited |-> 0]
                /\ UNCHANGED pending_retrievals
        /\ UNCHANGED <<tick_due, conns, peer_ips, pending_deletions,
                       pending_stores, pending_audits>>

\* The query returns (an error is an empty list): the first connected super
\* node, else any connected peer, else a negative ack.
MuxDbReturn ==
    /\ mux_loop.pc = "db_query"
    /\ mux_loop' = [pc |-> "select", h |-> 0, waited |-> 0]
    /\ \E super_nodes \in {<< >>, <<PeerIdOfKey("kNode")>>} :
          LET hits == {i \in DOMAIN super_nodes : super_nodes[i] \in connected_peers}
              candidates == IF hits # {}
                            THEN {super_nodes[CHOOSE i \in hits : \A j \in hits : i <= j]}
                            ELSE connected_peers
          IN  IF candidates = {}
              THEN /\ handles' = tx_send(handles, mux_loop.h, NackRetrieve(NoPeer))
                   /\ UNCHANGED pending_retrievals
              ELSE /\ \E peer_id \in candidates :
                         pending_retrievals' = insert_pending(pending_retrievals, mux_loop.h,
                            [deadline |-> RequestDeadlineSecs,
                             peer_id |-> peer_id, cid |-> MuxCid])
                   /\ UNCHANGED handles
    /\ UNCHANGED <<tick_due, conns, peer_ips, pending_deletions,
                   pending_stores, pending_audits>>

MuxDelete ==
    \E req \in offered :
        /\ TakeRequest(req) /\ req.kind = "Delete"
        /\ IF connected_peers # {}
           THEN /\ handles' = Append(handles, NewHandle(req))
                /\ pending_deletions' = insert_pending(pending_deletions, NewId,
                      [deadline |-> RequestDeadlineSecs])
           ELSE /\ handles' = tx_send(Append(handles, NewHandle(req)), NewId,
                                      DeleteAck(FALSE))
                /\ UNCHANGED pending_deletions
        /\ UNCHANGED <<tick_due, mux_loop, conns, peer_ips,
                       pending_retrievals, pending_stores, pending_audits>>

MuxAudit ==
    \E req \in offered :
        /\ TakeRequest(req) /\ req.kind = "Audit"
        /\ IF ~parses_as_peer(req.peer_id) \/ req.peer_id \notin connected_peers
           THEN /\ handles' = tx_send(Append(handles, NewHandle(req)), NewId,
                                      NackAudit(req.peer_id, "XX"))
                /\ UNCHANGED pending_audits
           ELSE /\ handles' = Append(handles, NewHandle(req))
                /\ pending_audits' = insert_pending(pending_audits, NewId,
                      [deadline |-> AuditDeadlineSecs,
                       peer_id |-> req.peer_id,
                       country_code |-> country_of_peer(req.peer_id),
                       cid |-> MuxCid, challenge_hex |-> "c1", nonce_hex |-> "n1"])
        /\ UNCHANGED <<tick_due, mux_loop, conns, peer_ips,
                       pending_retrievals, pending_deletions, pending_stores>>

\* ---- swarm events ----

\* The remote address may carry no Ip4/Ip6 component (a relayed or DNS
\* address): then no peer_ips entry is written.
ConnectionEstablished(max_conns) ==
    /\ mux_loop.pc = "select"
    /\ \E peer_id \in DOMAIN conns : \E node_ip \in AddrsOf(peer_id) \cup {NoIp} :
          /\ Len(conns[peer_id]) < max_conns
          /\ conns' = [conns EXCEPT ![peer_id] = Append(@, node_ip)]
          /\ peer_ips' = IF node_ip = NoIp THEN peer_ips
                         ELSE [q \in DOMAIN peer_ips \cup {peer_id} |->
                                  IF q = peer_id THEN node_ip ELSE peer_ips[q]]
    /\ UNCHANGED <<tick_due, mux_loop, pending_retrievals, pending_deletions,
                   pending_stores, pending_audits, handles>>

MuxConnectionEstablished == ConnectionEstablished(MaxConns)

MuxConnectionClosed ==
    /\ mux_loop.pc = "select"
    /\ \E peer_id \in DOMAIN conns : \E i \in 1..Len(conns[peer_id]) :
          /\ conns' = [conns EXCEPT ![peer_id] =
                          SubSeq(@, 1, i - 1) \o SubSeq(@, i + 1, Len(@))]
          /\ peer_ips' = [q \in DOMAIN peer_ips \ {peer_id} |-> peer_ips[q]]
    /\ UNCHANGED <<tick_due, mux_loop, pending_retrievals, pending_deletions,
                   pending_stores, pending_audits, handles>>

\* The replies a node, honest or not, may send to a pending request: the
\* honest reply at several ages, and replies off in one respect.
ReplyTimes(at_ms) ==
    {at_ms - MaxReplyAgeMs, at_ms - MaxReplyAgeMs - 1, at_ms + 60000}

StoreReplyOf(stored, timestamp_ms, signer, key, cid, len) ==
    [kind |-> "Store", stored |-> stored, timestamp_ms |-> timestamp_ms,
     signature |-> sign(signer, receipt_payload(cid, len, timestamp_ms)),
     public_key |-> encode_protobuf(key)]

StoreReplies(e, at_ms) ==
    LET k == KeyOf(e.peer_id)
    IN  {StoreReplyOf(TRUE, ts, k, k, e.cid, e.len) : ts \in ReplyTimes(at_ms)}
        \cup {StoreReplyOf(FALSE, at_ms - MaxReplyAgeMs, k, k, e.cid, e.len),
              StoreReplyOf(TRUE, at_ms - MaxReplyAgeMs, "kEvil", "kEvil", e.cid, e.len),
              StoreReplyOf(TRUE, at_ms - MaxReplyAgeMs, "kEvil", k, e.cid, e.len),
              StoreReplyOf(TRUE, at_ms - MaxReplyAgeMs, k, k, "cidB", e.len),
              StoreReplyOf(TRUE, at_ms - MaxReplyAgeMs, k, k, e.cid, e.len + 1),
              [kind |-> "Store", stored |-> TRUE, timestamp_ms |-> at_ms - MaxReplyAgeMs,
               signature |-> EmptyBytes, public_key |-> EmptyBytes]}

RetrieveReplyOf(found, data, timestamp_ms, signer, key, cid, len) ==
    [kind |-> "Retrieve", found |-> found, data |-> data, timestamp_ms |-> timestamp_ms,
     signature |-> sign(signer, proof_payload(cid, len, timestamp_ms)),
     public_key |-> encode_protobuf(key)]

RetrieveReplies(e, at_ms) ==
    LET k == KeyOf(e.peer_id)
    IN  {RetrieveReplyOf(TRUE, MuxData, ts, k, k, e.cid, Len(MuxData)) :
            ts \in ReplyTimes(at_ms)}
        \cup {RetrieveReplyOf(FALSE, << >>, at_ms - MaxReplyAgeMs, k, k, e.cid, 0),
              RetrieveReplyOf(TRUE, MuxData, at_ms - MaxReplyAgeMs, "kEvil", "kEvil", e.cid, Len(MuxData)),
              RetrieveReplyOf(TRUE, MuxData, at_ms - MaxReplyAgeMs, k, k, "cidB", Len(MuxData)),
              RetrieveReplyOf(TRUE, <<7>>, at_ms - MaxReplyAgeMs, k, k, e.cid, Len(MuxData))}

AuditReplyOf(found, accepted, timestamp_ms, signer, key, cid, challenge_hex, nonce_hex) ==
    LET response_hash == compute_audit_response_hash(challenge_hex, MuxData)
    IN  [kind |-> "Audit", found |-> found, accepted |-> accepted,
         response_hash |-> response_hash, timestamp_ms |-> timestamp_ms,
         signature |-> sign(signer, audit_payload(cid, challenge_hex, nonce_hex,
                                                  response_hash, timestamp_ms)),
         public_key |-> encode_protobuf(key)]

AuditReplies(e, at_ms) ==
    LET k == KeyOf(e.peer_id)
    IN  {AuditReplyOf(TRUE, TRUE, ts, k, k, e.cid, e.challenge_hex, e.nonce_hex) :
            ts \in ReplyTimes(at_ms)}
        \cup {AuditReplyOf(f, a, at_ms - MaxReplyAgeMs, k, k, e.cid, e.challenge_hex, e.nonce_hex) :
                 f \in BOOLEAN, a \in BOOLEAN}
        \cup {AuditReplyOf(TRUE, TRUE, at_ms - MaxReplyAgeMs, "kEvil", "kEvil", e.cid, e.challenge_hex,
                           e.nonce_hex),
              AuditReplyOf(TRUE, TRUE, at_ms - MaxReplyAgeMs, k, k, e.cid, e.challenge_hex, "n2"),
              AuditReplyOf(TRUE, TRUE, at_ms - MaxReplyAgeMs, k, k, e.cid, "c2", e.nonce_hex),
              AuditReplyOf(TRUE, TRUE, at_ms - MaxReplyAgeMs, k, k, "cidB", e.challenge_hex, e.nonce_hex)}

DeleteReplies(at_ms) ==
    {[kind |-> "Delete", deleted |-> d, timestamp_ms |-> at_ms,
      signature |-> sign("kNode", deletion_payload(MuxCid, at_ms)),
      public_key |-> encode_protobuf("kNode")] : d \in BOOLEAN}

\* What may arrive for request id: a reply of the request's kind, or a reply
\* of another kind (for an id no longer pending, some reply).
RepliesFor(id, at_ms) ==
    IF id \in DOMAIN pending_retrievals
    THEN RetrieveReplies(pending_retrievals[id], at_ms) \cup DeleteReplies(at_ms)
    ELSE IF id \in DOMAIN pending_stores
    THEN StoreReplies(pending_stores[id], at_ms) \cup DeleteReplies(at_ms)
    ELSE IF id \in DOMAIN pending_audits
    THEN AuditReplies(pending_audits[id], at_ms) \cup DeleteReplies(at_ms)
    ELSE DeleteReplies(at_ms)
         \cup {StoreReplyOf(TRUE, at_ms, "kNode", "kNode", MuxCid, Len(MuxData))}

RetrieveAckOf(pending, res, at_ms) ==
    LET sig_ok == verify_proof(res, pending.peer_id, pending.cid)
                  /\ is_fresh(res, at_ms, MaxReplyAgeMs)
    IN  [kind |-> "RetrieveAck",
         data |-> IF res.found /\ sig_ok THEN [kind |-> "Some", bytes |-> res.data]
                  ELSE [kind |-> "None"],
         peer_id |-> pending.peer_id, signature_valid |-> sig_ok,
         timestamp_ms |-> res.timestamp_ms]

StoreAckOf(pending, res, at_ms) ==
    LET sig_ok == verify_receipt(res, pending.peer_id, pending.cid, pending.len)
                  /\ is_fresh(res, at_ms, MaxReplyAgeMs)
    IN  [kind |-> "StoreAck", stored |-> res.stored /\ sig_ok,
         peer_id |-> pending.peer_id, country_code |-> pending.country_code,
         signature_valid |-> sig_ok, timestamp_ms |-> res.timestamp_ms]

AuditAckOf(pending, res, at_ms) ==
    LET sig_ok == verify_audit(res, pending.peer_id, pending.cid, pending.challenge_hex,
                               pending.nonce_hex)
                  /\ is_fresh(res, at_ms, MaxReplyAgeMs)
    IN  [kind |-> "AuditAck", verified |-> res.found /\ res.accepted /\ sig_ok,
         peer_id |-> pending.peer_id, country_code |-> pending.country_code,
         response_hash |-> res.response_hash, signature_valid |-> sig_ok,
         timestamp_ms |-> res.timestamp_ms,
         signature_hex |-> hex_encode(res.signature),
         public_key_hex |-> hex_encode(res.public_key)]

\* The ack the Response arm sends for a pending entry of map `kind`, or
\* NoAck when it sends none.
NoAck == [kind |-> "NoAck"]

response_ack(kind, pending, response, at_ms) ==
    CASE kind = "Retrieve" ->
            IF response.kind = "Retrieve" THEN RetrieveAckOf(pending, response, at_ms)
            ELSE NackRetrieve(pending.peer_id)
      [] kind = "Delete" ->
            IF response.kind = "Delete" THEN DeleteAck(response.deleted) ELSE NoAck
      [] kind = "Store" ->
            IF response.kind = "Store" THEN StoreAckOf(pending, response, at_ms)
            ELSE NackStore(pending.peer_id, pending.country_code)
      [] kind = "Audit" ->
            IF response.kind = "Audit" THEN AuditAckOf(pending, response, at_ms)
            ELSE NackAudit(pending.peer_id, pending.country_code)

send_unless_none(hs, h, ack) == IF ack = NoAck THEN hs ELSE tx_send(hs, h, ack)

\* request_response::Message::Response: the first pending map that holds the
\* id is the one served; a response for an id that is no longer pending
\* changes nothing.
on_response(id, response) ==
    /\ mux_loop.pc = "select"
    /\ IF id \in DOMAIN pending_retrievals
       THEN /\ pending_retrievals' = remove_pending(pending_retrievals, {id})
            /\ handles' = send_unless_none(handles, id,
                  response_ack("Retrieve", pending_retrievals[id], response, mux_now_ms))
            /\ UNCHANGED <<pending_deletions, pending_stores, pending_audits>>
       ELSE IF id \in DOMAIN pending_deletions
       THEN /\ pending_deletions' = remove_pending(pending_deletions, {id})
            /\ handles' = send_unless_none(handles, id,
                  response_ack("Delete", pending_deletions[id], response, mux_now_ms))
            /\ UNCHANGED <<pending_retrievals, pending_stores, pending_audits>>
       ELSE IF id \in DOMAIN pending_stores
       THEN /\ pending_stores' = remove_pending(pending_stores, {id})
            /\ handles' = send_unless_none(handles, id,
                  response_ack("Store", pending_stores[id], response, mux_now_ms))
            /\ UNCHANGED <<pending_retrievals, pending_deletions, pending_audits>>
       ELSE IF id \in DOMAIN pending_audits
       THEN /\ pending_audits' = remove_pending(pending_audits, {id})
            /\ handles' = send_unless_none(handles, id,
                  response_ack("Audit", pending_audits[id], response, mux_now_ms))
            /\ UNCHANGED <<pending_retrievals, pending_deletions, pending_stores>>
       ELSE UNCHANGED <<pending_retrievals, pending_deletions, pending_stores,
                        pending_audits, handles>>
    /\ UNCHANGED <<tick_due, mux_loop, conns, peer_ips>>

MuxResponse ==
    \E id \in 1..Len(handles) : \E response \in RepliesFor(id, mux_now_ms) :
        on_response(id, response)

\* The negative ack of each pending map, sent to the handles `ids` of it.
RECURSIVE nack_all(_, _)
nack_all(hs, ids) ==
    IF ids = {} THEN hs
    ELSE LET id == CHOOSE x \in ids : TRUE
             ack == IF id \in DOMAIN pending_retrievals
                    THEN NackRetrieve(pending_retrievals[id].peer_id)
                    ELSE IF id \in DOMAIN pending_deletions
                    THEN DeleteAck(FALSE)
                    ELSE IF id \in DOMAIN pending_stores
                    THEN NackStore(pending_stores[id].peer_id,
                                   pending_stores[id].country_code)
                    ELSE NackAudit(pending_audits[id].peer_id,
                                   pending_audits[id].country_code)
         IN  nack_all(tx_send(hs, id, ack), ids \ {id})

PendingIds ==
    DOMAIN pending_retrievals \cup DOMAIN pending_deletions
    \cup DOMAIN pending_stores \cup DOMAIN pending_audits

DeadlineOf(id) ==
    IF id \in DOMAIN pending_retrievals THEN pending_retrievals[id].deadline
    ELSE IF id \in DOMAIN pending_deletions THEN pending_deletions[id].deadline
    ELSE IF id \in DOMAIN pending_stores THEN pending_stores[id].deadline
    ELSE pending_audits[id].deadline

\* request_response::Event::OutboundFailure
on_outbound_failure(id) ==
    /\ mux_loop.pc = "select"
    /\ handles' = nack_all(handles, {id} \cap PendingIds)
    /\ pending_retrievals' = remove_pending(pending_retrievals, {id})
    /\ pending_deletions' = remove_pending(pending_deletions, {id})
    /\ pending_stores' = remove_pending(pending_stores, {id})
    /\ pending_audits' = remove_pending(pending_audits, {id})
    /\ UNCHANGED <<tick_due, mux_loop, conns, peer_ips>>

MuxOutboundFailure == \E id \in 1..Len(handles) : on_outbound_failure(id)

\* cleanup_interval.tick(): expire_pending_requests over the four maps.  A
\* deadline is kept as the seconds left until it: at most 0 once it has passed.
expire_pending_requests ==
    LET expired == {id \in PendingIds : DeadlineOf(id) <= 0}
    IN  /\ handles' = nack_all(handles, expired)
        /\ pending_retrievals' = remove_pending(pending_retrievals, expired)
        /\ pending_deletions' = remove_pending(pending_deletions, expired)
        /\ pending_stores' = remove_pending(pending_stores, expired)
        /\ pending_audits' = remove_pending(pending_audits, expired)

MuxTick ==
    /\ mux_loop.pc = "select"
    /\ tick_due
    /\ tick_due' = FALSE
    /\ expire_pending_requests
    /\ UNCHANGED <<mux_loop, conns, peer_ips>>

elapse(map) == [id \in DOMAIN map |-> [map[id] EXCEPT !.deadline = @ - CleanupPeriodSecs]]

\* A second passes: every deadline is a second nearer and the interval
\* fires.  The loop takes a due tick before the clock moves on, unless it is
\* inside the await of the super-node query, which may last MaxDbStallSecs.
MuxClockAdvance ==
    /\ IF mux_loop.pc = "db_query"
       THEN /\ mux_loop.waited < MaxDbStallSecs
            /\ mux_loop' = [mux_loop EXCEPT !.waited = @ + CleanupPeriodSecs]
       ELSE ~tick_due /\ UNCHANGED mux_loop
    /\ tick_due' = TRUE
    /\ pending_retrievals' = elapse(pending_retrievals)
    /\ pending_deletions' = elapse(pending_deletions)
    /\ pending_stores' = elapse(pending_stores)
    /\ pending_audits' = elapse(pending_audits)
    /\ UNCHANGED <<conns, peer_ips, handles>>

\* The caller gives up on the reply (its own timeout, or it never listens).
CallerDrop ==
    /\ \E h \in 1..Len(handles) :
          /\ handles[h].rx = "open" /\ handles[h].acks = << >>
          /\ handles' = [handles EXCEPT ![h].rx = "dropped"]
    /\ UNCHANGED <<tick_due, mux_loop, conns, peer_ips, pending_retrievals,
                   pending_deletions, pending_stores, pending_audits>>

InitMuxLoop ==
    /\ tick_due = TRUE
    /\ mux_loop = [pc |-> "select", h |-> 0, waited |-> 0]
    /\ peer_ips = << >>
    /\ pending_retrievals = << >> /\ pending_deletions = << >>
    /\ pending_stores = << >> /\ pending_audits = << >>
    /\ handles = << >>

InitMux ==
    /\ InitMuxLoop
    /\ conns = [q \in GatewayPeers |-> << >>]
    /\ offered = SwarmRequests

NextMux ==
    \/ MuxStore \/ MuxRetrieve \/ MuxDbReturn \/ MuxDelete \/ MuxAudit
    \/ MuxConnectionEstablished \/ MuxConnectionClosed
    \/ MuxResponse \/ MuxOutboundFailure \/ MuxTick \/ MuxClockAdvance \/ CallerDrop

(***************************************************************************)
(* Store placement (crates/gateway/src/p2p.rs, 268-340, 473-522): the      *)
(* Store arm and the connection events of the same loop, among peers of    *)
(* several countries and under every kind of geofence tag.                 *)
(***************************************************************************)
PlacementPeers == {PeerIdOfKey("kNode"), PeerIdOfKey("kUS"), PeerIdOfKey("kRoam")}

PlacementRequests ==
    [kind : {"Store"}, command : {"Store"}, geofence : {"GLOBAL", "EU", "DE", "US"}]
    \cup {[kind |-> "Store", command |-> "Retrieve", geofence |-> "GLOBAL"]}

InitPlace ==
    /\ InitMuxLoop
    /\ conns = [q \in PlacementPeers |-> << >>]
    /\ offered = PlacementRequests

NextPlace == MuxStore \/ MuxConnectionEstablished \/ MuxConnectionClosed

\* The swarm sets no connection limit, so one peer may hold several
\* connections at once (a simultaneous dial, a second transport address).
MaxPeerConns == 2

RedialRequests == {[kind |-> "Store", command |-> "Store", geofence |-> "GLOBAL"]}

InitRedial ==
    /\ InitMuxLoop
    /\ conns = [q \in PlacementPeers |-> << >>]
    /\ offered = RedialRequests

MuxRedial == ConnectionEstablished(MaxPeerConns)

NextRedial == MuxStore \/ MuxRedial \/ MuxConnectionClosed

(***************************************************************************)
(* The Response arm on its own (crates/gateway/src/p2p.rs, 523-603): one   *)
(* pending entry, one reply, one reading of the clock, and the ack the arm *)
(* sends for them.                                                         *)
(***************************************************************************)
ReplyPeers == {PeerIdOfKey("kNode"), PeerIdOfKey("kOther")}

PendingEntries(kind) ==
    CASE kind = "Store" ->
            {[deadline |-> RequestDeadlineSecs, peer_id |-> q, country_code |-> "DE",
              cid |-> MuxCid, len |-> Len(MuxData)] : q \in ReplyPeers}
      [] kind = "Retrieve" ->
            {[deadline |-> RequestDeadlineSecs, peer_id |-> q, cid |-> MuxCid] :
                q \in ReplyPeers}
      [] kind = "Delete" -> {[deadline |-> RequestDeadlineSecs]}
      [] kind = "Audit" ->
            {[deadline |-> AuditDeadlineSecs, peer_id |-> q, country_code |-> "DE",
              cid |-> MuxCid, challenge_hex |-> "c1", nonce_hex |-> "n1"] :
                q \in ReplyPeers}

\* Every reply a peer may send under one request id, whatever the request.
AnyReplies(at_ms) ==
    UNION {StoreReplies(e, at_ms) : e \in PendingEntries("Store")}
    \cup UNION {RetrieveReplies(e, at_ms) : e \in PendingEntries("Retrieve")}
    \cup UNION {AuditReplies(e, at_ms) : e \in PendingEntries("Audit")}
    \cup DeleteReplies(at_ms)

NoReplyCase == [kind |-> "none"]

OnResponse ==
    \E kind \in {"Store", "Retrieve", "Delete", "Audit"} :
    \E pending \in PendingEntries(kind) :
    \E response \in AnyReplies(mux_now_ms) :
        reply_case' = [kind |-> kind, pending |-> pending, response |-> response,
                       now_ms |-> mux_now_ms,
                       ack |-> response_ack(kind, pending, response, mux_now_ms)]

InitReply == reply_case = NoReplyCase

NextReply == OnResponse

(***************************************************************************)
(* Object handlers (crates/gateway/src/handlers/s3.rs): put_object and     *)
(* get_object, with crypto.rs and erasure.rs.                              *)
(*                                                                         *)
(* The 20 dispatch tasks of a PUT run the same code on shards of the same  *)
(* size, so they are kept as a count, and the shard indexes are named in   *)
(* the order in which the stores succeed.  A task's result is taken by the *)
(* handler's recv in the step that sends it while the handler is in its    *)
(* collect loop.  The request passes validate_csrf, validate_s3_auth and   *)
(* authorize_bucket, and the catalog answers the placement upserts.        *)
(***************************************************************************)
MaxPuts == 1
recovery_threshold == 10
parity_shards == 10
total_shards == recovery_threshold + parity_shards
required_as_threshold == recovery_threshold
required_optimistic_shards == recovery_threshold + 4

GcmNonceLen == 12
GcmTagLen == 16

ObjBucket == "b1"
ObjKey == "docs/a.txt"
Bodies == {<<5>>, <<5, 6>>}
Nonces == {0, 1}

div_ceil(a, b) == (a + b - 1) \div b

\* Aes256Gcm: the ciphertext depends on key, nonce and plaintext and carries
\* a tag; decrypt fails on a wrong key or nonce and on any altered or
\* extended ciphertext.
aead_encrypt(key, nonce, plain) ==
    [kind |-> "aead", key |-> key, nonce |-> nonce, plain |-> plain]
aead_len(ct) == Len(ct.plain) + GcmTagLen
aead_decrypt(key, nonce, ct, trailing) ==
    IF ct.key = key /\ ct.nonce = nonce /\ trailing = 0
    THEN [ok |-> TRUE, plain |-> ct.plain]
    ELSE [ok |-> FALSE]

\* MetadataProtector::encrypt with the nonce it drew, and decrypt.
encrypt(plain_text, nonce) ==
    [kind |-> "b64", nonce |-> nonce,
     wrapped |-> aead_encrypt("master", nonce, plain_text)]
decrypt(base64_text) ==
    aead_decrypt("master", base64_text.nonce, base64_text.wrapped, 0)

\* put_object: nonce || ciphertext under the key SHA-256(body).
plaintext_hash(body) == <<"sha256", body>>
encrypted_body_of(body, nonce) ==
    [nonce |-> nonce, enc |-> aead_encrypt(plaintext_hash(body), nonce, body)]
body_len(encrypted_body) == GcmNonceLen + aead_len(encrypted_body.enc)
cid_of(encrypted_body) == <<"Qm", encrypted_body>>
etag_of(body) == <<"md5", body>>

\* ErasureEncoder::encode pads the data to data_shards * shard_size bytes;
\* decode concatenates the data shards, padding included.
shard_size(len, data_shards) == div_ceil(len, data_shards)
erasure_decode(encrypted_body, data_shards) ==
    [kind |-> "decoded", data |-> encrypted_body,
     pad |-> data_shards * shard_size(body_len(encrypted_body), data_shards)
             - body_len(encrypted_body)]

IdlePut == [pc |-> "idle", body |-> << >>, nonce |-> 0,
            successful_store_acks |-> 0, status |-> 0, n |-> 0]
\* A response body: plain bytes, or what erasure_decode returned.
Bytes(seq) == [kind |-> "plain", bytes |-> seq]

IdleDel == [pc |-> "idle", obj |-> [kind |-> "none"], key |-> [kind |-> "none"],
            i |-> 0, status |-> 0]

\* The requests of this section are served one after the other.
NoRequestInProgress ==
    /\ put.pc \in {"idle", "done"} /\ shard_tasks = 0
    /\ get.pc \in {"idle", "done"}
    /\ del.pc \in {"idle", "done"}

IdleGet == [pc |-> "idle", obj |-> [kind |-> "none"], futures |-> 0,
            success_count |-> 0, status |-> 0, body |-> Bytes(<< >>)]

put_cid == cid_of(encrypted_body_of(put.body, put.nonce))
ShardRowsOf(cid) == {r \in object_shards : r.object_cid = cid}

\* put_object up to the collect loop: the body is encrypted under a fresh
\* nonce, sliced, and one task per shard is spawned.
PutBegin ==
    /\ NoRequestInProgress
    /\ put.n < MaxPuts
    /\ \E body \in Bodies : \E nonce \in Nonces :
          put' = [pc |-> "collect", body |-> body, nonce |-> nonce,
                  successful_store_acks |-> 0, status |-> 0, n |-> put.n + 1]
    /\ shard_tasks' = total_shards
    /\ UNCHANGED <<objects, object_shards, get, edge_cache, del>>

\* INSERT INTO object_shards ... ON CONFLICT (object_cid, shard_index) DO UPDATE
upsert_shard(rows, row) ==
    {r \in rows : ~(r.object_cid = row.object_cid /\ r.shard_index = row.shard_index)}
    \cup {row}

\* One dispatch task ends: on ack.stored it writes its placement row and
\* sends Ok, otherwise (rejected, timed out, queue closed) it sends Err.  The
\* collect loop counts an Ok and breaks at the quorum; it ends as well when
\* the last task has sent.  After the loop the result is left in the channel.
ShardTask ==
    /\ shard_tasks > 0
    /\ shard_tasks' = shard_tasks - 1
    /\ \E stored \in BOOLEAN :
          LET i == Cardinality(ShardRowsOf(put_cid))
              acks == put.successful_store_acks + (IF stored THEN 1 ELSE 0)
          IN  /\ object_shards' =
                    IF stored
                    THEN upsert_shard(object_shards,
                            [object_cid |-> put_cid, shard_cid |-> <<put_cid, "shard", i>>,
                             shard_index |-> i, peer_id |-> PeerIdOfKey("kNode"),
                             country_code |-> "DE", receipt_timestamp_ms |-> WallClockMs,
                             receipt_signature_valid |-> TRUE])
                    ELSE object_shards
              /\ put' = IF put.pc = "collect"
                        THEN [put EXCEPT
                                !.successful_store_acks = acks,
                                !.pc = IF acks >= required_optimistic_shards
                                          \/ shard_tasks' = 0
                                       THEN "quorum" ELSE "collect"]
                        ELSE put
    /\ UNCHANGED <<objects, get, edge_cache, del>>

\* INSERT INTO objects ... ON CONFLICT (bucket, key) DO UPDATE
upsert_object(rows, row) ==
    IF \E o \in rows : o.bucket = row.bucket /\ o.key = row.key
    THEN {IF o.bucket = row.bucket /\ o.key = row.key
          THEN [o EXCEPT !.etag = row.etag, !.cid = row.cid, !.size = row.size,
                         !.metadata_json = row.metadata_json]
          ELSE o : o \in rows}
    ELSE rows \cup {row}

\* After the loop: 503 below the quorum; otherwise the key and the
\* metadata are encrypted and the object row is written.
PutInsertObject ==
    /\ put.pc = "quorum"
    /\ IF put.successful_store_acks < required_optimistic_shards
       THEN /\ put' = [put EXCEPT !.pc = "done", !.status = 503]
            /\ UNCHANGED objects
       ELSE \E key_nonce \in Nonces : \E meta_nonce \in Nonces : \E db_ok \in BOOLEAN :
               LET encrypted_body == encrypted_body_of(put.body, put.nonce)
                   row == [bucket |-> ObjBucket, key |-> encrypt(ObjKey, key_nonce),
                           etag |-> etag_of(put.body), cid |-> cid_of(encrypted_body),
                           shards |-> total_shards,
                           recovery_threshold |-> recovery_threshold,
                           size |-> body_len(encrypted_body),
                           metadata_json |->
                               encrypt([encryption_key |-> plaintext_hash(put.body)],
                                       meta_nonce)]
               IN  IF db_ok
                   THEN /\ objects' = upsert_object(objects, row)
                        /\ put' = [put EXCEPT !.pc = "manifest"]
                   ELSE /\ put' = [put EXCEPT !.pc = "done", !.status = 500]
                        /\ UNCHANGED objects
    /\ UNCHANGED <<object_shards, shard_tasks, get, edge_cache, del>>

\* The shadow manifest is sent and awaited for at most 4 s, whatever its
\* ack; the root manifest is sent from a task of its own; then 200.
PutReturn ==
    /\ put.pc = "manifest"
    /\ put' = [put EXCEPT !.pc = "done", !.status = 200]
    /\ UNCHANGED <<objects, object_shards, shard_tasks, get, edge_cache, del>>

CachedAt(cid) == {c \in edge_cache : c.cid = cid}

\* get_object up to the race: the key is encrypted under a fresh nonce, the
\* row is looked up by it, the cache is asked, the retrievals are started.
GetBegin ==
    /\ put.pc = "done"
    /\ NoRequestInProgress
    /\ \E nonce \in Nonces :
          LET encrypted_key == encrypt(ObjKey, nonce)
              rows == {o \in objects : o.bucket = ObjBucket /\ o.key = encrypted_key}
          IN  IF rows = {}
              THEN get' = [IdleGet EXCEPT !.pc = "done", !.status = 404]
              ELSE LET obj == CHOOSE o \in rows : TRUE
                   IN  IF CachedAt(obj.cid) # {}
                       THEN get' = [IdleGet EXCEPT
                                       !.pc = "done", !.status = 200, !.obj = obj,
                                       !.body = (CHOOSE c \in CachedAt(obj.cid) : TRUE).bytes]
                       ELSE get' = [IdleGet EXCEPT
                                       !.pc = "race", !.obj = obj, !.futures = obj.shards]
    /\ UNCHANGED <<objects, object_shards, put, shard_tasks, edge_cache, del>>

\* success_count >= obj.recovery_threshold, the test that ends the loop and
\* the one that lets the handler go on to decode.
collected_past_threshold(success_count, obj) == success_count > obj.recovery_threshold

collected_enough(success_count, obj) == success_count >= obj.recovery_threshold

\* One retrieval future ends, with the shard (a verified RetrieveAck with
\* data, which only a shard some node stored can give) or with None.  The
\* loop breaks at recovery_threshold shards and ends when no future is left.
GetShard ==
    /\ get.pc = "race"
    /\ get.futures > 0
    /\ \E found \in BOOLEAN :
          /\ found => get.success_count < Cardinality(ShardRowsOf(get.obj.cid))
          /\ LET n == get.success_count + (IF found THEN 1 ELSE 0)
             IN  get' = [get EXCEPT
                           !.futures = @ - 1,
                           !.success_count = n,
                           !.pc = IF collected_enough(n, get.obj) \/ get.futures = 1
                                  THEN "decode" ELSE "race"]
    /\ UNCHANGED <<objects, object_shards, put, shard_tasks, edge_cache, del>>

\* After the race: 500 below the threshold; otherwise decode, decrypt with
\* the key from the metadata (the bytes stay as decoded when the decryption
\* fails), hand the bytes to the cache and return them with 200.
final_data_of(obj, reconstructed_data) ==
    LET metadata == decrypt(obj.metadata_json)
        key_bytes == metadata.plain.encryption_key
        dec == aead_decrypt(key_bytes, reconstructed_data.data.nonce,
                            reconstructed_data.data.enc, reconstructed_data.pad)
    IN  IF metadata.ok /\ dec.ok THEN Bytes(dec.plain) ELSE reconstructed_data

GetDecode ==
    /\ get.pc = "decode"
    /\ IF ~collected_enough(get.success_count, get.obj)
       THEN /\ get' = [get EXCEPT !.pc = "done", !.status = 500]
            /\ UNCHANGED edge_cache
       ELSE LET reconstructed_data ==
                    erasure_decode(get.obj.cid[2], get.obj.recovery_threshold)
                final_data == final_data_of(get.obj, reconstructed_data)
            IN  /\ get' = [get EXCEPT !.pc = "done", !.status = 200, !.body = final_data]
                /\ edge_cache' = {c \in edge_cache : c.cid # get.obj.cid}
                                 \cup {[cid |-> get.obj.cid, bytes |-> final_data]}
    /\ UNCHANGED <<objects, object_shards, put, shard_tasks, del>>

\* deduplicate_object: an object row with the cid (and the etag, when one
\* is given) is copied under the request's key, encrypted under a fresh
\* nonce.
deduplicate_object(payload, key_nonce) ==
    LET found == {o \in objects :
                     /\ o.cid = payload.cid
                     /\ payload.etag.kind = "Some" => o.etag = payload.etag.etag}
    IN  IF found = {} THEN objects
        ELSE LET obj == CHOOSE o \in found : TRUE
             IN  upsert_object(objects,
                     [bucket |-> ObjBucket, key |-> encrypt(ObjKey, key_nonce),
                      etag |-> obj.etag, cid |-> obj.cid, shards |-> obj.shards,
                      recovery_threshold |-> obj.recovery_threshold,
                      size |-> obj.size, metadata_json |-> obj.metadata_json])

\* The cid of a body that was never uploaded.
UnknownCid == cid_of(encrypted_body_of(<<9>>, 0))

DedupRequests ==
    [cid : {o.cid : o \in objects} \cup {UnknownCid},
     etag : {[kind |-> "None"]} \cup {[kind |-> "Some", etag |-> o.etag] : o \in objects}]

DedupObject ==
    /\ NoRequestInProgress
    /\ \E payload \in DedupRequests : \E key_nonce \in Nonces :
          objects' = deduplicate_object(payload, key_nonce)
    /\ UNCHANGED <<object_shards, put, shard_tasks, get, edge_cache, del>>

\* delete_object up to its loop: the key is encrypted under a fresh nonce
\* and the row is looked up by it; 404 when there is none.
DeleteBegin ==
    /\ NoRequestInProgress
    /\ put.pc = "done"
    /\ \E nonce \in Nonces :
          LET encrypted_key == encrypt(ObjKey, nonce)
              rows == {o \in objects : o.bucket = ObjBucket /\ o.key = encrypted_key}
          IN  IF rows = {}
              THEN del' = [IdleDel EXCEPT !.pc = "done", !.status = 404]
              ELSE del' = [IdleDel EXCEPT !.pc = "shards", !.key = encrypted_key,
                                          !.obj = CHOOSE o \in rows : TRUE]
    /\ UNCHANGED <<objects, object_shards, put, shard_tasks, get, edge_cache>>

\* One turn of the loop: SwarmRequest::Delete for shard i is sent and its
\* ack awaited; the ack, or the loss of the handle, changes nothing.
DeleteShard ==
    /\ del.pc = "shards"
    /\ del' = IF del.i + 1 >= del.obj.shards
              THEN [del EXCEPT !.i = @ + 1, !.pc = "remove"]
              ELSE [del EXCEPT !.i = @ + 1]
    /\ UNCHANGED <<objects, object_shards, put, shard_tasks, get, edge_cache>>

\* The metadata is overwritten, then the row is deleted: 204, or 500 when
\* the DELETE fails.
DeleteRow ==
    /\ del.pc = "remove"
    /\ \E db_ok \in BOOLEAN :
          IF db_ok
          THEN /\ objects' = {o \in objects :
                                 ~(o.bucket = ObjBucket /\ o.key = del.key)}
               /\ del' = [del EXCEPT !.pc = "done", !.status = 204]
          ELSE /\ objects' = objects
               /\ del' = [del EXCEPT !.pc = "done", !.status = 500]
    /\ UNCHANGED <<object_shards, put, shard_tasks, get, edge_cache>>

InitObj ==
    /\ objects = {} /\ put = IdlePut /\ shard_tasks = 0
    /\ get = IdleGet /\ edge_cache = {} /\ del = IdleDel

NextObj == PutBegin \/ ShardTask \/ PutInsertObject \/ PutReturn
           \/ GetBegin \/ GetShard \/ GetDecode

\* The catalog after an upload that returned 200 with 14 shards stored.
InitCatalog ==
    /\ \E body \in Bodies :
          LET nonce == 0
              key_nonce == 0
              encrypted_body == encrypted_body_of(body, nonce)
          IN  /\ put = [pc |-> "done", body |-> body, nonce |-> nonce,
                        successful_store_acks |-> required_optimistic_shards,
                        status |-> 200, n |-> 0]
              /\ objects =
                    {[bucket |-> ObjBucket, key |-> encrypt(ObjKey, key_nonce),
                      etag |-> etag_of(body), cid |-> cid_of(encrypted_body),
                      shards |-> total_shards,
                      recovery_threshold |-> recovery_threshold,
                      size |-> body_len(encrypted_body),
                      metadata_json |->
                          encrypt([encryption_key |-> plaintext_hash(body)], 0)]}
              /\ object_shards =
                    {[object_cid |-> cid_of(encrypted_body),
                      shard_cid |-> <<cid_of(encrypted_body), "shard", i>>,
                      shard_index |-> i, peer_id |-> PeerIdOfKey("kNode"),
                      country_code |-> "DE", receipt_timestamp_ms |-> WallClockMs,
                      receipt_signature_valid |-> TRUE] :
                        i \in 0..(required_optimistic_shards - 1)}
    /\ shard_tasks = 0 /\ get = IdleGet /\ edge_cache = {} /\ del = IdleDel

NextCatalog == PutBegin \/ ShardTask \/ PutInsertObject \/ PutReturn
               \/ DedupObject \/ DeleteBegin \/ DeleteShard \/ DeleteRow

(***************************************************************************)
(* Repair daemon (crates/gateway/src/repair.rs).  Every 60 s the daemon    *)
(* runs its sweeps one after the other; two of them write the objects      *)
(* table.  The heat score is a member of the row's metadata_json that a    *)
(* counter outside the gateway writes; the rows the gateway writes have    *)
(* none.  It is kept here beside the rows, one record per flagged row.     *)
(***************************************************************************)
HealthyShards == 20
ViralShards == 100

\* Decimal texts, as digit sequences: ->> yields text and the comparison
\* with '1000' is the text comparison.
HeatThreshold == <<1, 0, 0, 0>>
HeatScores == {<<0>>, <<9, 9, 9>>, <<1, 0, 0, 1>>}
HeatReset == <<0>>

RECURSIVE text_greater(_, _)
text_greater(a, b) ==
    IF a = << >> THEN FALSE
    ELSE IF b = << >> THEN TRUE
    ELSE IF Head(a) # Head(b) THEN Head(a) > Head(b)
    ELSE text_greater(Tail(a), Tail(b))

heat_of(o) == {h \in heat_score : h.bucket = o.bucket /\ h.key = o.key}

\* The counter flags an object row.
HeatCounterWrite ==
    /\ \E o \in objects : \E h \in HeatScores :
          heat_score' = (heat_score \ heat_of(o))
                        \cup {[bucket |-> o.bucket, key |-> o.key, heat_score |-> h]}
    /\ UNCHANGED <<objects, object_shards, put, shard_tasks, get, edge_cache, del>>

\* sweep: rows below 20 shards and at or above their threshold are set to
\* 20 shards (an UPDATE that fails leaves the row).
degraded_objects == {o \in objects : o.shards < HealthyShards /\ o.shards >= o.recovery_threshold}

RepairSweep ==
    /\ \E updated \in SUBSET degraded_objects :
          objects' = {IF o \in updated THEN [o EXCEPT !.shards = HealthyShards] ELSE o :
                         o \in objects}
    /\ UNCHANGED <<heat_score, object_shards, put, shard_tasks, get, edge_cache, del>>

\* thundering_herd_caching_sweep: rows whose heat score is above '1000' and
\* that have fewer than 100 shards are set to 100 shards and their heat score
\* to 0; no shard is encoded, stored or placed.
hot_objects ==
    {o \in objects : /\ \E h \in heat_of(o) : text_greater(h.heat_score, HeatThreshold)
                     /\ o.shards < ViralShards}

ThunderingHerdSweep ==
    /\ \E updated \in SUBSET hot_objects :
          /\ objects' = {IF o \in updated THEN [o EXCEPT !.shards = ViralShards] ELSE o :
                            o \in objects}
          /\ heat_score' = {IF \E o \in updated : h \in heat_of(o)
                            THEN [h EXCEPT !.heat_score = HeatReset] ELSE h : h \in heat_score}
    /\ UNCHANGED <<object_shards, put, shard_tasks, get, edge_cache, del>>

NextRepair ==
    \/ HeatCounterWrite \/ RepairSweep \/ ThunderingHerdSweep
    \/ ((GetBegin \/ GetShard \/ GetDecode) /\ UNCHANGED heat_score)

(***************************************************************************)
(* The shard stores of one upload and their placement rows: the dispatch   *)
(* tasks of put_object (handlers/s3.rs), which run side by side, and the   *)
(* loop of zk_store (handlers/zk.rs), which stores one shard after the     *)
(* other and writes the rows at the end.  The swarm's part is the Store    *)
(* arm (a pending entry for the chosen peer, or the negative ack at once)  *)
(* and the ack it sends for the reply, a deadline or an outbound failure.  *)
(***************************************************************************)
DispatchedShards == {0, 1}
DispatchCid == "QmUp"
\* format!("{}-shard-{}", cid, i) for the upload's cid
ShardCidText == <<"QmUp-shard-0", "QmUp-shard-1">>
shard_cid_of(cid, i) == ShardCidText[i + 1]

NoPending == [kind |-> "none"]
NoResponse == [kind |-> "none"]
SpawnedTask == [pc |-> "spawned", pending |-> NoPending, response |-> NoResponse,
                ack |-> NoAck]

placement_row(i, ack) ==
    [object_cid |-> DispatchCid, shard_cid |-> shard_cid_of(DispatchCid, i),
     shard_index |-> i, peer_id |-> ack.peer_id, country_code |-> ack.country_code,
     receipt_timestamp_ms |-> ack.timestamp_ms,
     receipt_signature_valid |-> ack.signature_valid]

\* SwarmRequest::Store for shard i reaches the swarm.  zk_store sends shard i
\* after the shards before it were acknowledged as stored.
TaskStore(i) ==
    /\ dispatch.tasks[i].pc = "spawned"
    /\ dispatch.handler = "zk_store" =>
          \A j \in DispatchedShards : j < i => dispatch.tasks[j].pc = "held"
    /\ \/ \E q \in ReplyPeers :
             dispatch' = [dispatch EXCEPT
                 !.tasks[i].pc = "pending",
                 !.tasks[i].pending =
                     [deadline |-> RequestDeadlineSecs, peer_id |-> q,
                      country_code |-> "DE", cid |-> shard_cid_of(DispatchCid, i),
                      len |-> Len(MuxData)]]
       \/ dispatch' = [dispatch EXCEPT !.tasks[i].pc = "acked",
                                        !.tasks[i].ack = NackStore(NoPeer, "XX")]
    /\ UNCHANGED object_shards

\* The swarm answers the pending store: the ack for the peer's reply, or the
\* negative ack of a deadline or an outbound failure.
TaskAck(i) ==
    /\ dispatch.tasks[i].pc = "pending"
    /\ LET pending == dispatch.tasks[i].pending
       IN  \/ \E response \in StoreReplies(pending, mux_now_ms)
                               \cup DeleteReplies(mux_now_ms) :
                 dispatch' = [dispatch EXCEPT
                     !.tasks[i].pc = "acked",
                     !.tasks[i].response = response,
                     !.tasks[i].ack =
                         response_ack("Store", pending, response, mux_now_ms)]
           \/ dispatch' = [dispatch EXCEPT
                     !.tasks[i].pc = "acked",
                     !.tasks[i].ack = NackStore(pending.peer_id, pending.country_code)]
    /\ UNCHANGED object_shards

\* timeout(.., rx) elapses before the swarm has answered.
TaskTimeout(i) ==
    /\ dispatch.tasks[i].pc = "pending"
    /\ dispatch' = [dispatch EXCEPT !.tasks[i].pc = "done"]
    /\ UNCHANGED object_shards

\* The ack is read.  put_object's task writes the placement row on
\* ack.stored; zk_store keeps the placement for later, and returns 503 on
\* the first shard that was not stored.
TaskRecv(i) ==
    /\ dispatch.tasks[i].pc = "acked"
    /\ LET ack == dispatch.tasks[i].ack
       IN  IF dispatch.handler = "put_object"
           THEN /\ dispatch' = [dispatch EXCEPT !.tasks[i].pc = "done"]
                /\ object_shards' = IF ack.stored
                                    THEN upsert_shard(object_shards, placement_row(i, ack))
                                    ELSE object_shards
           ELSE /\ dispatch' = [dispatch EXCEPT
                                   !.tasks[i].pc = IF ack.stored THEN "held" ELSE "done"]
                /\ UNCHANGED object_shards

\* zk_store after its loop and the object row: the placements are written
\* in the order of the shards.
ZkInsertShard(i) ==
    /\ dispatch.handler = "zk_store"
    /\ dispatch.tasks[i].pc = "held"
    /\ \A j \in DispatchedShards :
          dispatch.tasks[j].pc = IF j < i THEN "inserted" ELSE "held"
    /\ object_shards' = upsert_shard(object_shards, placement_row(i, dispatch.tasks[i].ack))
    /\ dispatch' = [dispatch EXCEPT !.tasks[i].pc = "inserted"]

InitDispatch ==
    \E h \in {"put_object", "zk_store"} :
        dispatch = [handler |-> h, tasks |-> [i \in DispatchedShards |-> SpawnedTask]]

NextDispatch ==
    \E i \in DispatchedShards :
        TaskStore(i) \/ TaskAck(i) \/ TaskTimeout(i) \/ TaskRecv(i) \/ ZkInsertShard(i)


\* No upload is in progress.
(***************************************************************************)
(* The client SDK pipeline (crates/client-sdk): process_bytes cuts the     *)
(* input into chunks, encrypts each chunk under the password's key and     *)
(* erasure-codes nonce || ciphertext into N = K + M shards;                *)
(* reconstruct_bytes is its inverse.  AES-256-GCM and the Reed-Solomon     *)
(* code are symbolic: a ciphertext opens only under the key and nonce that *)
(* made it, a parity byte stands for its column of data bytes, and the     *)
(* code rebuilds missing shards from any K present ones.                   *)
(***************************************************************************)
MaxInputLen == 3

PipeInputs == UNION {[1..n -> {7, 9}] : n \in 0..MaxInputLen}
PipePassword == "vault-pass"
Passwords == {PipePassword, "wrong-pass"}
PipeSalt == "c2FsdC1vbmU"
Salts == {PipeSalt, "c2FsdC10d28"}
PipelineConfigs ==
    {[chunk_size |-> 2, data_shards |-> 2, parity_shards |-> 1],
     [chunk_size |-> 2, data_shards |-> 3, parity_shards |-> 1],
     [chunk_size |-> 2, data_shards |-> 2, parity_shards |-> 2],
     [chunk_size |-> 2, data_shards |-> 1, parity_shards |-> 1]}

PipeOk(bytes) == [kind |-> "Ok", bytes |-> bytes]
PipeErr(msg) == [kind |-> "Err", msg |-> msg]

validate_cfg(cfg) ==
    IF cfg.chunk_size = 0 THEN PipeErr("chunk_size must be > 0")
    ELSE IF cfg.data_shards < 2 THEN PipeErr("data_shards must be >= 2")
    ELSE IF cfg.parity_shards < 1 THEN PipeErr("parity_shards must be >= 1")
    ELSE PipeOk(<< >>)

derive_key(password, salt) == <<"argon2", password, salt>>

\* The 12 bytes OsRng fills, drawn as the value r.
nonce_bytes_of(r) == [k \in 1..NonceLen |-> <<"nonce", r, k>>]

nonce_of(bytes) ==
    IF \A k \in 1..NonceLen : bytes[k][1] = "nonce" /\ bytes[k] = <<"nonce", bytes[1][2], k>>
    THEN bytes[1][2]
    ELSE -1

\* AES-256-GCM: the ciphertext is as long as the data plus the 16-byte tag.
encrypt_chunk(data, key, r) ==
    [nonce |-> nonce_bytes_of(r),
     ciphertext |->
        [j \in 1..(Len(data) + TagLen) |->
            IF j <= Len(data) THEN <<"ct", key, r, j, data[j]>>
            ELSE <<"tag", key, r, data, j - Len(data)>>]]

\* A decryption that returns the bytes under any key, without the tag check.
aes_gcm_decrypt_unauthenticated(key, nonce, ciphertext) ==
    IF Len(ciphertext) < TagLen THEN PipeErr("decryption failed")
    ELSE PipeOk([j \in 1..(Len(ciphertext) - TagLen) |->
                    IF ciphertext[j][1] = "ct" THEN ciphertext[j][5] ELSE 0])

aes_gcm_decrypt(key, nonce, ciphertext) ==
    IF Len(ciphertext) < TagLen THEN PipeErr("decryption failed")
    ELSE LET n == Len(ciphertext) - TagLen
             r == nonce_of(nonce)
             opened == \A j \in 1..n :
                          /\ ciphertext[j][1] = "ct"
                          /\ ciphertext[j] = <<"ct", key, r, j, ciphertext[j][5]>>
             plain == [j \in 1..n |-> ciphertext[j][5]]
         IN  IF /\ opened
                /\ \A t \in 1..TagLen :
                      /\ ciphertext[n + t][1] = "tag"
                      /\ ciphertext[n + t] = <<"tag", key, r, plain, t>>
             THEN PipeOk(plain)
             ELSE PipeErr("decryption failed")

ZeroByte == <<"zero">>

\* Shards 1..K are the payload cut into K pieces of shard_len bytes, the
\* last one zero-padded; shards K+1..N are the parity rs.encode fills in.
erasure_encode(enc, data_shards, parity) ==
    LET payload == enc.nonce \o enc.ciphertext
        shard_len == div_ceil(Len(payload), data_shards)
        data(i) == [p \in 1..shard_len |->
                       LET q == (i - 1) * shard_len + p
                       IN  IF q <= Len(payload) THEN payload[q] ELSE ZeroByte]
    IN  [i \in 1..(data_shards + parity) |->
            IF i <= data_shards THEN data(i)
            ELSE [p \in 1..shard_len |->
                     <<"parity", i, [d \in 1..data_shards |-> data(d)[p]]>>]]

NoShard == [some |-> FALSE, bytes |-> << >>]
SomeShard(bytes) == [some |-> TRUE, bytes |-> bytes]

\* A decoder that fills a missing data shard with zero bytes instead of
\* rebuilding it from the parity.
rs_reconstruct_zero_fill(shards_opt, data_shards, parity) ==
    LET present == {i \in DOMAIN shards_opt : shards_opt[i].some}
        shard_len == Len(shards_opt[CHOOSE k \in present : TRUE].bytes)
    IN  IF Cardinality(present) < data_shards THEN PipeErr("too few shards present")
        ELSE PipeOk([i \in DOMAIN shards_opt |->
                IF i \in present \/ i > data_shards THEN shards_opt[i]
                ELSE SomeShard([p \in 1..shard_len |-> ZeroByte])])

\* ReedSolomon::reconstruct: an error with fewer than K shards present,
\* otherwise every missing data shard is rebuilt.
rs_reconstruct(shards_opt, data_shards, parity) ==
    LET present == {i \in DOMAIN shards_opt : shards_opt[i].some}
    IN  IF Cardinality(present) < data_shards THEN PipeErr("too few shards present")
        ELSE PipeOk([i \in DOMAIN shards_opt |->
                IF i \in present \/ i > data_shards THEN shards_opt[i]
                ELSE LET q == CHOOSE k \in present : k > data_shards
                     IN  SomeShard([p \in 1..Len(shards_opt[q].bytes) |->
                                       shards_opt[q].bytes[p][3][i]])])

chunk_of(input, chunk_size, idx) ==
    SubSeq(input, idx * chunk_size + 1,
           IF (idx + 1) * chunk_size < Len(input) THEN (idx + 1) * chunk_size
           ELSE Len(input))

RECURSIVE FlattenShards(_)
FlattenShards(lists) ==
    IF lists = << >> THEN << >> ELSE Head(lists) \o FlattenShards(Tail(lists))

process_bytes(input, password, cfg, salt, r) ==
    IF validate_cfg(cfg).kind = "Err" THEN validate_cfg(cfg)
    ELSE LET key == derive_key(password, salt)
             chunk_count == div_ceil(Len(input), cfg.chunk_size)
             shards_of(idx) ==
                 LET enc == encrypt_chunk(chunk_of(input, cfg.chunk_size, idx), key,
                                          <<r, idx>>)
                     encoded_shards == erasure_encode(enc, cfg.data_shards,
                                                      cfg.parity_shards)
                 IN  [s \in 1..Len(encoded_shards) |->
                        [chunk_index |-> idx, shard_index |-> s - 1,
                         cid |-> sha256_hex(<<encoded_shards[s]>>),
                         bytes |-> encoded_shards[s],
                         payload_len |-> NonceLen + Len(enc.ciphertext),
                         data_shards |-> cfg.data_shards,
                         parity_shards |-> cfg.parity_shards]]
         IN  [kind |-> "Ok", salt |-> salt,
              shards |-> FlattenShards([c \in 1..chunk_count |-> shards_of(c - 1)]),
              total_bytes |-> Len(input), chunk_count |-> chunk_count]

\* A test that lets a chunk with one shard too few through to the decoder.
enough_shards_lenient(count, data_shards) == ~(count < data_shards - 1)

\* The test reconstruct_bytes makes before it tries the code: the chunk has
\* at least data_shards shards in the list.
enough_shards(count, data_shards) == ~(count < data_shards)

\* One chunk of reconstruct_bytes: the shards of the chunk, in list order.
reconstruct_chunk(chunk_shards, key) ==
    LET first == chunk_shards[1]
        data_shards == first.data_shards
        total == data_shards + first.parity_shards
        shard_len == Len(first.bytes)
        placed == {i \in 1..Len(chunk_shards) : chunk_shards[i].shard_index < total}
        shards_opt ==
            [k \in 1..total |->
                LET at == {i \in placed : chunk_shards[i].shard_index = k - 1}
                IN  IF at = {} THEN NoShard
                    ELSE SomeShard(chunk_shards[CHOOSE i \in at :
                                                    \A j \in at : j <= i].bytes)]
        rebuilt == rs_reconstruct(shards_opt, data_shards, first.parity_shards)
        full == [q \in 1..(data_shards * shard_len) |->
                    rebuilt.bytes[((q - 1) \div shard_len) + 1].bytes[((q - 1) % shard_len) + 1]]
        payload == IF first.payload_len < Len(full)
                   THEN SubSeq(full, 1, first.payload_len) ELSE full
    IN  IF ~enough_shards(Len(chunk_shards), data_shards)
        THEN PipeErr("not enough shards to reconstruct chunk")
        ELSE IF \E i \in placed :
                    sha256_hex(<<chunk_shards[i].bytes>>) # chunk_shards[i].cid
        THEN PipeErr("cid mismatch for shard")
        ELSE IF rebuilt.kind = "Err" THEN rebuilt
        ELSE IF \E k \in 1..data_shards : ~rebuilt.bytes[k].some
        THEN PipeErr("failed to reconstruct data shards")
        ELSE IF Len(payload) < NonceLen
        THEN PipeErr("invalid payload length after reconstruction")
        ELSE aes_gcm_decrypt(key, SubSeq(payload, 1, NonceLen),
                             SubSeq(payload, NonceLen + 1, Len(payload)))

RECURSIVE reconstruct_chunks(_, _, _, _)
reconstruct_chunks(shards, key, grouped, out) ==
    IF grouped = {} THEN PipeOk(out)
    ELSE LET c == CHOOSE x \in grouped : \A y \in grouped : x <= y
             chunk_shards == SelectSeq(shards, LAMBDA s : s.chunk_index = c)
             plain == reconstruct_chunk(chunk_shards, key)
         IN  IF plain.kind = "Err" THEN plain
             ELSE reconstruct_chunks(shards, key, grouped \ {c}, out \o plain.bytes)

reconstruct_bytes(shards, password, salt) ==
    IF shards = << >> THEN PipeOk(<< >>)
    ELSE reconstruct_chunks(shards, derive_key(password, salt),
                            {shards[i].chunk_index : i \in 1..Len(shards)}, << >>)

NoResult == [kind |-> "none"]
IdlePipe == [pc |-> "idle", input |-> << >>,
             cfg |-> [chunk_size |-> 0, data_shards |-> 0, parity_shards |-> 0],
             output |-> NoResult, kept |-> << >>,
             password |-> "", salt |-> "", result |-> NoResult]

\* process_bytes on one input under one configuration.
PipeProcess ==
    /\ pipe.pc = "idle"
    /\ \E input \in PipeInputs : \E cfg \in PipelineConfigs :
          LET output == process_bytes(input, PipePassword, cfg, PipeSalt, 0)
          IN  pipe' = [IdlePipe EXCEPT
                          !.pc = IF output.kind = "Ok" THEN "processed" ELSE "rejected",
                          !.input = input, !.cfg = cfg, !.output = output,
                          !.kept = IF output.kind = "Ok" THEN output.shards ELSE << >>]

\* A shard is lost before the download: it is left out of the list.
PipeLoseShard ==
    /\ pipe.pc = "processed"
    /\ \E i \in 1..Len(pipe.kept) :
          pipe' = [pipe EXCEPT !.kept = SubSeq(@, 1, i - 1) \o SubSeq(@, i + 1, Len(@))]

\* reconstruct_bytes on the shards that are left.
PipeReconstruct ==
    /\ pipe.pc = "processed"
    /\ \E password \in Passwords : \E salt \in Salts :
          pipe' = [pipe EXCEPT !.pc = "reconstructed", !.password = password,
                               !.salt = salt,
                               !.result = reconstruct_bytes(pipe.kept, password, salt)]

InitPipe == pipe = IdlePipe

NextPipe == PipeProcess \/ PipeLoseShard \/ PipeReconstruct

(***************************************************************************)
(* The sentinel's adaptive reputation engine (crates/sentinel): one peer's *)
(* PeerModel over a run of observations.  Scores, z-scores and confidence  *)
(* are f64 in the code; here they are integers in thousandths.  The        *)
(* running statistics are not computed: the anomaly magnitude, the         *)
(* deviation of the score, the reputation, the trend and the churn         *)
(* probability of an observation are drawn from sets that hold a value on  *)
(* each side of every threshold decide_action compares them with.          *)
(***************************************************************************)
MaxObservations == 4
anomaly_threshold == 2500
min_observations == 10

AnomalyMagnitudes == {2499, 2500, 3750}
ScoreDeviations == {0, 5, 50}
Reputations == {10, 50, 90}
Trends == {"improving", "degrading", "stable"}
ChurnProbabilities == {50, 900}
HeatAccumulators == {0, 80, 400}

clamp(x, lo, hi) == IF x < lo THEN lo ELSE IF x > hi THEN hi ELSE x

anomaly_level(score, threshold) ==
    IF 2 * score >= 3 * threshold THEN "critical"
    ELSE IF score >= threshold THEN "warn"
    ELSE "none"

\* score_dev is sqrt(score_var), in score points.
compute_confidence(observations, min_obs, score_dev) ==
    LET obs_confidence == IF observations >= min_obs THEN 1000
                          ELSE (observations * 1000) \div min_obs
        var_confidence == clamp(1000 - (score_dev * 1000) \div 50, 50, 1000)
    IN  clamp((obs_confidence * 600 + var_confidence * 400) \div 1000, 50, 990)

evict_rule(level, consecutive_anomalies, confidence) ==
    level = "critical" /\ consecutive_anomalies >= 3 /\ confidence > 600

decide_action(reputation, level, trend, consecutive_anomalies, confidence, slo_violations, churn_probability) ==
    IF evict_rule(level, consecutive_anomalies, confidence) THEN "evict"
    ELSE IF churn_probability > 800 THEN "proactive_evict"
    ELSE IF level = "critical" \/ reputation < 20 THEN "quarantine"
    ELSE IF level = "warn" \/ (trend = "degrading" /\ reputation < 60) THEN "probation"
    ELSE IF slo_violations >= 3 /\ reputation < 70 THEN "probation"
    ELSE IF reputation >= 80 /\ level = "none" /\ confidence > 500 THEN "promote"
    ELSE "hold"

\* heat_accumulator is in heat units, reputation in score points; the
\* multiplier is in thousandths.
compute_rl_redundancy(heat_accumulator, reputation, action) ==
    IF action = "quarantine" \/ action = "evict" THEN 500
    ELSE LET heat_bonus == clamp(heat_accumulator * 10, 0, 1500)
             rep_bonus == reputation * 5
         IN  clamp(1000 + heat_bonus + rep_bonus, 1000, 2500)

\* PeerModel::default(), and no output yet.
InitSentinel ==
    sentinel = [observations |-> 0, consecutive_anomalies |-> 0,
                slo_violation_count |-> 0, levels |-> << >>,
                action |-> "", confidence |-> 0,
                recommended_redundancy_multiplier |-> 0]

\* One metrics line of the peer in adaptive mode.  The statistics are
\* uninitialized at the first observation: every z-score is 0.
process_adaptive ==
    /\ sentinel.observations < MaxObservations
    /\ \E magnitude \in IF sentinel.observations = 0 THEN {0} ELSE AnomalyMagnitudes :
       \E score_dev \in IF sentinel.observations = 0 THEN {0} ELSE ScoreDeviations :
       \E reputation \in Reputations : \E trend \in Trends :
       \E slo_ok \in BOOLEAN : \E churn_prob \in ChurnProbabilities :
       \E heat_accumulator \in HeatAccumulators :
          LET anomaly_lvl == anomaly_level(magnitude, anomaly_threshold)
              observations == sentinel.observations + 1
              consecutive_anomalies ==
                  IF anomaly_lvl # "none" THEN sentinel.consecutive_anomalies + 1 ELSE 0
              slo_violation_count ==
                  IF slo_ok THEN sentinel.slo_violation_count
                  ELSE sentinel.slo_violation_count + 1
              confidence == compute_confidence(observations, min_observations, score_dev)
              action == decide_action(reputation, anomaly_lvl, trend,
                                      consecutive_anomalies, confidence,
                                      slo_violation_count, churn_prob)
          IN  sentinel' =
                 [observations |-> observations,
                  consecutive_anomalies |-> consecutive_anomalies,
                  slo_violation_count |-> slo_violation_count,
                  levels |-> Append(sentinel.levels, anomaly_lvl),
                  action |-> action,
                  confidence |-> confidence,
                  recommended_redundancy_multiplier |->
                      compute_rl_redundancy(heat_accumulator, reputation, action)]

NextSentinel == process_adaptive

(***************************************************************************)
(* adaptive_config (crates/client-sdk): the pipeline configuration chosen  *)
(* from the input size, the number of peers and the redundancy profile.    *)
(***************************************************************************)
MaxPeerCount == 12
DEFAULT_CHUNK_SIZE == 256 * 1024
LargeInputBytes == 32 * 1024 * 1024

TotalSizes == {0, LargeInputBytes, LargeInputBytes + 1}
RedundancyProfiles == {"Mobile", "Balanced", "Resilient"}

usize_max(a, b) == IF a >= b THEN a ELSE b
usize_min(a, b) == IF a <= b THEN a ELSE b

\* A target without the cap of 12 shards.
target_total_uncapped(peer_count) == usize_max(4, peer_count * 2)

target_total_of(peer_count) == usize_max(4, usize_min(12, peer_count * 2))

profile_config(total_bytes, profile) ==
    IF profile = "Mobile"
    THEN [chunk_size |-> 128 * 1024, data_shards |-> 3, parity_shards |-> 1]
    ELSE IF profile = "Balanced"
    THEN [chunk_size |-> DEFAULT_CHUNK_SIZE, data_shards |-> 4,
          parity_shards |-> IF total_bytes > LargeInputBytes THEN 3 ELSE 2]
    ELSE [chunk_size |-> DEFAULT_CHUNK_SIZE, data_shards |-> 4, parity_shards |-> 4]

adaptive_config(total_bytes, peer_count, profile) ==
    LET cfg == profile_config(total_bytes, profile)
    IN  IF peer_count > 0
        THEN LET target_total == target_total_of(peer_count)
                 base_data == usize_max(2, usize_min(cfg.data_shards, target_total - 1))
             IN  [cfg EXCEPT !.data_shards = base_data,
                             !.parity_shards =
                                 usize_max(1, saturating_sub(target_total, base_data))]
        ELSE cfg

InitConfig ==
    config = [total_bytes |-> 0, peer_count |-> 0, profile |-> "Balanced",
              cfg |-> [chunk_size |-> DEFAULT_CHUNK_SIZE, data_shards |-> 4,
                       parity_shards |-> 2]]

\* One call of adaptive_config.
Configure ==
    \E total_bytes \in TotalSizes : \E peer_count \in 0..MaxPeerCount :
    \E profile \in RedundancyProfiles :
        config' = [total_bytes |-> total_bytes, peer_count |-> peer_count,
                   profile |-> profile,
                   cfg |-> adaptive_config(total_bytes, peer_count, profile)]

NextConfig == Configure

(***************************************************************************)
(* authorize_bucket (crates/gateway/src/handlers/s3.rs, 36-70): the bucket *)
(* name is masked with MetadataProtector::encrypt, the owner is looked up  *)
(* under the masked name, and a bucket without a row is provisioned for    *)
(* the caller.  The SELECT and the INSERT are two statements; requests of  *)
(* different callers interleave between them.  The table's definition is   *)
(* not in the sources: the INSERT is taken to fail on a name that already  *)
(* has a row.                                                              *)
(***************************************************************************)
Accounts == {"alice@example.com", "bob@example.com"}
AuthRequests == {"r1", "r2"}

hashed_bucket_of(bucket, nonce) == encrypt(<<"bucket_salt_", bucket>>, nonce)

IdleAuth == [pc |-> "idle", email |-> "", hashed_bucket |-> encrypt(<<"none">>, 0),
             owners_before |-> {}, found |-> {}, status |-> 0]

\* The masking and the SELECT owner_email FROM buckets WHERE name = $1.
AuthorizeSelect(r) ==
    /\ authz[r].pc = "idle"
    /\ \E email \in Accounts : \E nonce \in Nonces :
          LET hashed_bucket == hashed_bucket_of(ObjBucket, nonce)
          IN  authz' = [authz EXCEPT ![r] =
                 [pc |-> "selected", email |-> email, hashed_bucket |-> hashed_bucket,
                  owners_before |-> {b.owner_email : b \in buckets},
                  found |-> {b.owner_email : b \in {x \in buckets : x.name = hashed_bucket}},
                  status |-> 0]]
    /\ UNCHANGED buckets

\* The match on the row: Ok or 403 for a row, the INSERT for none.
AuthorizeDecide(r) ==
    /\ authz[r].pc = "selected"
    /\ IF authz[r].found # {}
       THEN /\ authz' = [authz EXCEPT ![r].pc = "done",
                                      ![r].status = IF authz[r].email \in authz[r].found
                                                    THEN 200 ELSE 403]
            /\ UNCHANGED buckets
       ELSE IF \E b \in buckets : b.name = authz[r].hashed_bucket
       THEN /\ authz' = [authz EXCEPT ![r].pc = "done", ![r].status = 500]
            /\ UNCHANGED buckets
       ELSE /\ buckets' = buckets \cup {[name |-> authz[r].hashed_bucket,
                                          owner_email |-> authz[r].email]}
            /\ authz' = [authz EXCEPT ![r].pc = "done", ![r].status = 200]

\* The handler has answered; the slot takes the next request.
AuthorizeReturn(r) ==
    /\ authz[r].pc = "done"
    /\ authz' = [authz EXCEPT ![r] = IdleAuth]
    /\ UNCHANGED buckets

authorize_bucket ==
    \E r \in AuthRequests : AuthorizeSelect(r) \/ AuthorizeDecide(r) \/ AuthorizeReturn(r)

InitBuckets ==
    /\ buckets = {}
    /\ authz = [r \in AuthRequests |-> IdleAuth]

NextBuckets == authorize_bucket

IdleDispatch == [handler |-> "none", tasks |-> [i \in DispatchedShards |-> SpawnedTask]]

Init ==
    /\ InitPipe /\ InitSentinel /\ InitConfig /\ InitBuckets /\ InitThreads
    /\ heat_score = {}
    /\ InitStore /\ InitNode /\ InitProofs /\ InitMux /\ InitReply /\ InitObj
    /\ dispatch = IdleDispatch
    /\ object_shards = {}

\* The catalog after an object was stored: one placement row.
InitStored ==
    /\ InitPipe /\ InitSentinel /\ InitConfig /\ InitBuckets /\ InitThreads
    /\ heat_score = {}
    /\ InitStore /\ InitNode /\ InitProofs /\ InitMux /\ InitReply /\ InitObj
    /\ dispatch = IdleDispatch
    /\ object_shards = {TargetRow}

SpecStore ==
    Init /\ [][NextStore /\ UNCHANGED <<nodeVars, proofVars, muxVars, reply_case, objVars, offered, clientVars, dispatch>>]_vars

SpecThreads ==
    Init /\ [][NextThreads /\ UNCHANGED <<store_last, nodeVars, proofVars, muxVars, reply_case,
                                          objVars, offered, dispatch, pipe, sentinel, config,
                                          bucketVars, heat_score>>]_vars

SpecNode == Init /\ [][NextNode /\ UNCHANGED <<proofVars, muxVars, reply_case, objVars, offered, clientVars, dispatch>>]_vars

SpecProofs ==
    InitStored
    /\ [][NextProofs /\ UNCHANGED <<storeVars, nodeVars, muxVars, reply_case, objVars, offered, clientVars, dispatch>>]_vars

\* The audit round is a spawned future the runtime keeps polling: the ack
\* or the 12 s timer completes the await, and each catalog statement returns.
DaemonRound ==
    /\ DaemonAck \/ DaemonMarkFailed \/ DaemonFinalize
    /\ UNCHANGED <<storeVars, nodeVars, muxVars, reply_case, objVars, offered, clientVars, dispatch>>

SpecProofsLive ==
    /\ InitStored
    /\ [][NextProofs /\ UNCHANGED <<storeVars, nodeVars, muxVars, reply_case, objVars, offered, clientVars, dispatch>>]_vars
    /\ WF_vars(DaemonRound)

SpecMux ==
    Init /\ [][NextMux /\ UNCHANGED <<storeVars, nodeVars, proofVars, reply_case, objVars, offered, clientVars, dispatch>>]_vars

InitPlacement ==
    /\ InitPipe /\ InitSentinel /\ InitConfig /\ InitBuckets /\ InitThreads
    /\ heat_score = {}
    /\ InitStore /\ InitNode /\ InitProofs /\ InitPlace /\ InitReply /\ InitObj
    /\ dispatch = IdleDispatch
    /\ object_shards = {}

SpecPlace ==
    InitPlacement
    /\ [][NextPlace /\ UNCHANGED <<storeVars, nodeVars, proofVars, reply_case, objVars,
                                   tick_due, mux_loop, pending_retrievals,
                                   pending_deletions, pending_audits, offered, clientVars, dispatch>>]_vars

InitConnections ==
    /\ InitPipe /\ InitSentinel /\ InitConfig /\ InitBuckets /\ InitThreads
    /\ heat_score = {}
    /\ InitStore /\ InitNode /\ InitProofs /\ InitRedial /\ InitReply /\ InitObj
    /\ dispatch = IdleDispatch
    /\ object_shards = {}

SpecConnections ==
    InitConnections
    /\ [][NextRedial /\ UNCHANGED <<storeVars, nodeVars, proofVars, reply_case, objVars,
                                     tick_due, mux_loop, pending_retrievals,
                                     pending_deletions, pending_audits, offered, clientVars, dispatch>>]_vars

SpecReply ==
    Init /\ [][NextReply
                /\ UNCHANGED <<storeVars, nodeVars, proofVars, muxVars, objVars, offered, clientVars, dispatch>>]_vars

InitUpload ==
    /\ InitPipe /\ InitSentinel /\ InitConfig /\ InitBuckets /\ InitThreads
    /\ heat_score = {}
    /\ InitStore /\ InitNode /\ InitProofs /\ InitMux /\ InitReply /\ InitObj
    /\ InitDispatch
    /\ object_shards = {}

SpecDispatch ==
    InitUpload
    /\ [][NextDispatch /\ UNCHANGED <<storeVars, nodeVars, proofTaskVars, muxVars,
                                           reply_case, objVars, offered, clientVars>>]_vars

InitUploaded ==
    /\ InitPipe /\ InitSentinel /\ InitConfig /\ InitBuckets /\ InitThreads
    /\ heat_score = {}
    /\ InitStore /\ InitNode /\ InitProofs /\ InitMux /\ InitReply
    /\ dispatch = IdleDispatch
    /\ InitCatalog

SpecCatalog ==
    InitUploaded
    /\ [][NextCatalog /\ UNCHANGED <<storeVars, nodeVars, proofTaskVars, muxVars,
                                      reply_case, offered, clientVars, dispatch>>]_vars

SpecRepair ==
    InitUploaded
    /\ [][NextRepair /\ UNCHANGED <<storeVars, nodeVars, proofTaskVars, muxVars, reply_case,
                                     offered, dispatch, pipe, sentinel, config, bucketVars,
                                     store_threads>>]_vars

SpecPipeline ==
    Init /\ [][NextPipe /\ UNCHANGED <<storeVars, nodeVars, proofVars, muxVars, reply_case,
                                       objVars, offered, dispatch, sentinel, config, bucketVars,
                                       store_threads, heat_score>>]_vars

SpecSentinel ==
    Init /\ [][NextSentinel /\ UNCHANGED <<storeVars, nodeVars, proofVars, muxVars, reply_case,
                                           objVars, offered, dispatch, pipe, config, bucketVars,
                                           store_threads, heat_score>>]_vars

SpecConfig ==
    Init /\ [][NextConfig /\ UNCHANGED <<storeVars, nodeVars, proofVars, muxVars, reply_case,
                                         objVars, offered, dispatch, pipe, sentinel, bucketVars,
                                         store_threads, heat_score>>]_vars

SpecBuckets ==
    Init /\ [][NextBuckets /\ UNCHANGED <<storeVars, nodeVars, proofVars, muxVars, reply_case,
                                          objVars, offered, dispatch, pipe, sentinel,
                                          config, store_threads, heat_score>>]_vars

SpecObj ==
    Init /\ [][NextObj /\ UNCHANGED <<storeVars, nodeVars, proofTaskVars, muxVars,
                                      reply_case, offered, clientVars, dispatch>>]_vars

\* C1: every request submitted to the multiplexer gets exactly one ack on
\* its reply handle: a handle never holds two acks, and once the request is
\* neither awaited by the loop nor pending, its handle (unless the caller
\* dropped it) holds one.
C1_ExactlyOneAck ==
    \A h \in 1..Len(handles) :
        /\ Len(handles[h].acks) <= 1
        /\ (/\ h \notin PendingIds
            /\ ~(mux_loop.pc = "db_query" /\ mux_loop.h = h)
            /\ handles[h].rx = "open") => Len(handles[h].acks) = 1

\* C2: a pending request is never found in its pending map more than one
\* second after its deadline.
C2_ExpiredWithinOneSecond ==
    \A id \in PendingIds : DeadlineOf(id) >= -1

PositiveAck(ack) ==
    \/ ack.kind = "StoreAck" /\ ack.stored
    \/ ack.kind = "RetrieveAck" /\ ack.data.kind = "Some"

SignedByTarget(pending, response, payload) ==
    /\ response.public_key = encode_protobuf(KeyOf(pending.peer_id))
    /\ response.signature = sign(KeyOf(pending.peer_id), payload)

\* C3: a Store ack with stored = true, or a Retrieve ack with a payload, is
\* sent only for a reply of the request's kind, signed by the key of the
\* peer the request was sent to over the payload of the request's cid (and
\* length), and no older than 30 000 ms.
C3_PositiveAckChecked ==
    (reply_case.kind \in {"Store", "Retrieve"} /\ PositiveAck(reply_case.ack)) =>
        LET pending == reply_case.pending
            response == reply_case.response
        IN  /\ response.kind = reply_case.kind
            /\ SignedByTarget(pending, response,
                  IF reply_case.kind = "Store"
                  THEN receipt_payload(pending.cid, pending.len, response.timestamp_ms)
                  ELSE proof_payload(pending.cid, Len(response.data),
                                     response.timestamp_ms))
            /\ reply_case.now_ms - response.timestamp_ms <= 30000

C3_Witness ==
    /\ reply_case.kind = "Retrieve"
    /\ reply_case.ack.kind = "RetrieveAck"
    /\ reply_case.ack.data = [kind |-> "Some", bytes |-> MuxData]

\* C4: an Audit ack has verified = true exactly when the reply is an audit
\* reply with found and accepted, signed by the targeted peer's key over the
\* audit payload of the request's cid, challenge and nonce, and fresh.
C4_AuditVerifiedIff ==
    reply_case.kind = "Audit" =>
        LET pending == reply_case.pending
            response == reply_case.response
        IN  reply_case.ack.verified <=>
               /\ response.kind = "Audit"
               /\ response.found /\ response.accepted
               /\ SignedByTarget(pending, response,
                     audit_payload(pending.cid, pending.challenge_hex, pending.nonce_hex,
                                   response.response_hash, response.timestamp_ms))
               /\ reply_case.now_ms - response.timestamp_ms <= 30000

C4_Witness ==
    /\ reply_case.kind = "Audit"
    /\ reply_case.ack.verified
    /\ reply_case.response.found /\ reply_case.response.accepted

\* C6: once a challenge's status is verified, failed or expired, no later
\* operation changes it; in particular an expired challenge is never
\* marked verified afterwards.
C6_TerminalStatusFinal ==
    [][\A i \in DOMAIN zk_proof_challenges :
          zk_proof_challenges[i].status \in {"verified", "failed", "expired"}
             => zk_proof_challenges'[i].status = zk_proof_challenges[i].status]_vars

EvidenceRowsOf(challenge_id) ==
    {i \in DOMAIN shard_residency_evidence :
        shard_residency_evidence[i].challenge_id = challenge_id}

\* No handler is between the statements of finalize_verified_challenge.
NoFinalizeInProgress ==
    /\ daemon.pc \notin {"fin2", "fin3"}
    /\ \A s \in Submitters : submit[s].pc \notin {"fin2", "fin3"}

\* C7: the residency-evidence table is append-only and mirrors the verified
\* challenges: every row belongs to a challenge whose status is verified, a
\* verified challenge has exactly one row (read whenever no finalisation is
\* under way), no two rows share a challenge, and a row once written is
\* never changed or removed.
C7_EvidenceMirrorsVerified ==
    /\ [](NoFinalizeInProgress =>
            /\ \A i \in DOMAIN shard_residency_evidence :
                  zk_proof_challenges[shard_residency_evidence[i].challenge_id].status
                      = "verified"
            /\ \A c \in DOMAIN zk_proof_challenges :
                  zk_proof_challenges[c].status = "verified"
                      => Cardinality(EvidenceRowsOf(c)) = 1
            /\ \A c \in DOMAIN zk_proof_challenges :
                  Cardinality(EvidenceRowsOf(c)) <= 1)
    /\ [][\A i \in DOMAIN shard_residency_evidence :
             /\ i \in DOMAIN shard_residency_evidence'
             /\ shard_residency_evidence'[i] = shard_residency_evidence[i]]_vars

\* C8: PUT returns success with exactly 14 positive store acks counted and
\* does not stay in its collect loop once it has them; below 14 it returns
\* 503 and no object row is written.
C8_OptimisticQuorum ==
    /\ [](/\ put.status = 200 => put.successful_store_acks = 14
          /\ put.pc = "collect" => put.successful_store_acks < 14
          /\ (put.pc = "done" /\ put.successful_store_acks < 14) => put.status = 503)
    /\ [][(put.pc = "quorum" /\ put.successful_store_acks < 14) =>
              objects' = objects]_vars

C8_Witness ==
    /\ put.pc = "done" /\ put.status = 200
    /\ put.successful_store_acks = 14
    /\ shard_tasks > 0

\* C9: after a PUT that returned success, a finished GET of the same bucket
\* and key has found the object row, and when it retrieved at least K = 10
\* shards it returns 200 with exactly the body that was PUT.
C9_GetReturnsPutBody ==
    (put.pc = "done" /\ put.status = 200 /\ get.pc = "done") =>
        /\ get.status # 404
        /\ get.success_count >= 10 => (get.status = 200 /\ get.body = Bytes(put.body))

\* The IP address last observed for a peer among its open connections.
ObservedIp(peer) ==
    LET with_ip == {i \in 1..Len(conns[peer]) : conns[peer][i] # NoIp}
    IN  IF with_ip = {} THEN NoIp
        ELSE conns[peer][CHOOSE i \in with_ip : \A j \in with_ip : j <= i]

RegionAllowed(tag, ip) ==
    \/ tag = "GLOBAL"
    \/ ip \in DOMAIN GeoIpDb /\ tag = "EU" /\ GeoIpDb[ip] \in eu_countries
    \/ ip \in DOMAIN GeoIpDb /\ tag = GeoIpDb[ip]

\* C11: a step that registers a pending Store sent it to a peer that had an
\* open connection then, and whose last observed IP address lies in a
\* country the request's geofence tag (GLOBAL, EU or a country code) allows.
C11_StoreToAuthorizedPeer ==
    [][\A id \in DOMAIN pending_stores' \ DOMAIN pending_stores :
          LET peer == pending_stores'[id].peer_id
          IN  /\ conns[peer] # << >>
              /\ ObservedIp(peer) # NoIp
              /\ RegionAllowed(handles'[id].req.geofence, ObservedIp(peer))]_vars

C11_Witness ==
    \E id \in DOMAIN pending_stores :
        /\ handles[id].req.geofence = "EU"
        /\ pending_stores[id].peer_id = PeerIdOfKey("kRoam")
        /\ pending_stores[id].country_code = "FR"
        /\ conns[PeerIdOfKey("kUS")] # << >>

\* What verify_zk_proof requires of a submission's own fields: a timestamp
\* within 120 s of the clock, the stored challenge and nonce, a public key
\* whose peer id is node_id, and that key's signature over the audit payload.
SubmissionChecked(p, row, at_secs) ==
    /\ p.timestamp_ms <= at_secs * 1000 + 120000
    /\ at_secs * 1000 - p.timestamp_ms <= 120000
    /\ p.challenge_hex = row.challenge_hex /\ p.nonce_hex = row.nonce_hex
    /\ p.public_key_hex = hex_encode(encode_protobuf(KeyOf(p.node_id)))
    /\ p.signature_hex =
          hex_encode(sign(KeyOf(p.node_id),
              audit_payload(p.shard_cid, p.challenge_hex, p.nonce_hex, p.response_hash,
                            p.timestamp_ms)))

\* C12: the submission endpoint marks a challenge verified only when the
\* submission passes every check on its fields and the challenge is pending
\* and not expired.
C12_FinalizeOnlyChecked ==
    [][\A s \in Submitters :
          (submit[s].pc = "fin1" /\ submit'[s].pc = "fin2") =>
              LET p == submit[s].payload
                  row == zk_proof_challenges[p.challenge_id]
              IN  /\ SubmissionChecked(p, row, proof_now)
                  /\ row.status = "pending"
                  /\ row.expires_at > proof_now]_vars

\* C13: every challenge row whose status is verified, by the daemon or by the
\* submission endpoint, stores as response_hash the SHA-256 of the decoded
\* challenge followed by the bytes of the audited shard.
C13_VerifiedHashIsShardHash ==
    \A i \in DOMAIN zk_proof_challenges :
        zk_proof_challenges[i].status = "verified" =>
            zk_proof_challenges[i].response_hash =
                honest_response_hash(zk_proof_challenges[i].challenge_hex)

\* C14: a placement row is written only after the store of that shard was
\* acknowledged as stored, and the row's peer id is the identity whose key
\* signed the receipt in the reply; the rows of different shards are written
\* in either order.
C14_RowAfterPositiveAck ==
    [][\A r \in object_shards' \ object_shards :
          LET t == dispatch.tasks[r.shard_index]
          IN  /\ t.pc \in {"acked", "held"}
              /\ t.ack.kind = "StoreAck" /\ t.ack.stored
              /\ t.response.kind = "Store" /\ t.response.stored
              /\ SignedByTarget([peer_id |-> r.peer_id], t.response,
                                receipt_payload(r.shard_cid, t.pending.len,
                                                t.response.timestamp_ms))]_vars

C14_Witness ==
    /\ dispatch.handler = "put_object"
    /\ \E r \in object_shards : r.shard_index = 1 /\ r.peer_id = PeerIdOfKey("kOther")
    /\ \E r \in object_shards : r.shard_index = 0 /\ r.peer_id = PeerIdOfKey("kNode")
    /\ dispatch.tasks[0].pc = "done" /\ dispatch.tasks[1].pc = "done"

\* The key a row was stored under, as the caller named it.
logical_key(o) == decrypt(o.key).plain

\* C15: whatever PUT and deduplicate requests were served, the catalog holds
\* at most one object row per bucket and logical key.
C15_OneRowPerKey ==
    \A o1 \in objects : \A o2 \in objects :
        (o1.bucket = o2.bucket /\ logical_key(o1) = logical_key(o2)) => o1 = o2

\* C16: GET collects no more than K = recovery_threshold shards: its loop
\* is left as soon as K have arrived; and the race it leaves with fewer
\* than K shards is answered with 500, the one with K is not.
C16_StopsAtThreshold ==
    /\ [](/\ get.pc = "race" => get.success_count < recovery_threshold
          /\ get.pc = "decode" => get.success_count <= recovery_threshold)
    /\ [][get.pc = "decode" =>
              ((get.success_count < recovery_threshold) <=> (get'.status = 500))]_vars

C16_Witness ==
    /\ get.pc = "done" /\ get.status = 500
    /\ get.success_count = recovery_threshold - 1
    /\ get.futures = 0

\* C17: a DELETE of a key that was PUT ends with the key's object row
\* removed from the catalog, whatever the nodes answered.
C17_DeleteRemovesRow ==
    (del.pc = "done" /\ put.pc = "done") =>
        \A o \in objects : ~(o.bucket = ObjBucket /\ logical_key(o) = ObjKey)

\* The peer a pending request was sent to, as its pending entry records it.
DispatchedTo(id) ==
    IF id \in DOMAIN pending_retrievals THEN pending_retrievals[id].peer_id
    ELSE IF id \in DOMAIN pending_stores THEN pending_stores[id].peer_id
    ELSE pending_audits[id].peer_id

NegativeAck(ack) ==
    CASE ack.kind = "RetrieveAck" -> ack.data.kind = "None"
      [] ack.kind = "StoreAck" -> ~ack.stored
      [] ack.kind = "AuditAck" -> ~ack.verified
      [] ack.kind = "DeleteAck" -> ~ack.deleted

\* C18: when an outbound failure or a missed deadline ends a pending
\* request whose caller still listens, the caller gets a negative ack that
\* carries the peer id the request was dispatched to.
C18_NackKeepsPeer ==
    [][(MuxTick \/ MuxOutboundFailure) =>
          \A id \in PendingIds \ PendingIds' :
              handles[id].rx = "open" =>
                  /\ Len(handles'[id].acks) = Len(handles[id].acks) + 1
                  /\ LET ack == handles'[id].acks[Len(handles'[id].acks)]
                     IN  /\ NegativeAck(ack)
                         /\ "peer_id" \in DOMAIN ack
                         /\ ack.peer_id = DispatchedTo(id)]_vars

\* The connected peers whose observed address is in a region the tag allows.
PassingPeers(tag) ==
    {q \in connected_peers :
        ObservedIp(q) # NoIp /\ RegionAllowed(tag, ObservedIp(q))}

\* C19: a Store request taken while no connected peer passes the placement
\* policy for its geofence tag is answered in that step with a negative
\* StoreAck, and no pending entry is made for it.
C19_NoCandidateNacks ==
    [][\A id \in (1..Len(handles')) \ (1..Len(handles)) :
          (/\ handles'[id].req.kind = "Store"
           /\ handles'[id].req.command = "Store"
           /\ PassingPeers(handles'[id].req.geofence) = {}) =>
              /\ pending_stores' = pending_stores
              /\ Len(handles'[id].acks) = 1
              /\ handles'[id].acks[1].kind = "StoreAck"
              /\ ~handles'[id].acks[1].stored]_vars

C19_Witness ==
    /\ handles # << >>
    /\ LET h == handles[Len(handles)]
       IN  /\ h.req.kind = "Store" /\ h.req.command = "Store" /\ h.req.geofence = "US"
           /\ h.acks = <<NackStore(NoPeer, "XX")>>
    /\ PassingPeers("US") = {}
    /\ PassingPeers("EU") # {}
    /\ Len(handles) \notin DOMAIN pending_stores

\* The autonomous system of the peer a placement row names.
asn_of_row(r) == get_asn_org(CHOOSE ip \in AddrsOf(r.peer_id) : TRUE)

\* C20: of the placements of one object, no more than N - K = 10 are on
\* peers of one autonomous system.
C20_AsnDensity ==
    \A r \in object_shards :
        Cardinality({x \in ShardRowsOf(r.object_cid) : asn_of_row(x) = asn_of_row(r)})
            <= total_shards - recovery_threshold

\* C21: when the response, an outbound failure or the deadline of a pending
\* request comes after its caller dropped the reply handle, the entry leaves
\* its pending map in that step; nothing is delivered, the loop goes on
\* selecting, and a response or failure leaves every other pending request
\* in place.
C21_DroppedHandleHarmless ==
    [][\A id \in PendingIds :
          handles[id].rx = "dropped" =>
              /\ ((\E response \in RepliesFor(id, mux_now_ms) : on_response(id, response))
                   \/ on_outbound_failure(id)) =>
                      /\ PendingIds' = PendingIds \ {id}
                      /\ handles'[id].acks = << >>
                      /\ mux_loop'.pc = "select"
              /\ (MuxTick /\ DeadlineOf(id) <= 0) =>
                      /\ id \notin PendingIds'
                      /\ handles'[id].acks = << >>
                      /\ mux_loop'.pc = "select"
                      /\ \A j \in PendingIds : DeadlineOf(j) > 0 => j \in PendingIds']_vars

C21_Witness ==
    \E h \in 1..Len(handles) : \E j \in 1..Len(handles) :
        /\ handles[h].rx = "dropped" /\ handles[h].acks = << >>
        /\ handles[h].req.kind \in {"Store", "Audit"}
        /\ h \notin PendingIds
        /\ j > h /\ handles[j].rx = "open" /\ Len(handles[j].acks) = 1
        /\ PositiveAck(handles[j].acks[1])

\* C22: the node answers an audit whose (cid, nonce) is a duplicate with
\* accepted = false and has not read the shard from its block store.
C22_DuplicateNotRead ==
    (/\ node_last.cmd.kind = "Audit"
     /\ is_peer_allowed(allowlist, node_last.peer)
     /\ node_last.prev_accept >= 0
     /\ node_last.reply.timestamp_ms - node_last.prev_accept <= ttl_ms) =>
        /\ ~node_last.reply.accepted
        /\ ~node_last.read_store

\* SHA-256(decode_hex(challenge) || shard_bytes) for the audit served last.
AuditedShard == retrieve_chunk(node_last.cmd.cid)
ExpectedAuditHash ==
    sha256_hex(<<decode_hex(node_last.cmd.challenge_hex), AuditedShard.data>>)

\* C23 as stated: every audit reply with accepted = true carries the hash of
\* the decoded challenge followed by the shard bytes, and every audit reply
\* with accepted = false carries an empty response_hash.
C23_AcceptedCarriesHash ==
    node_last.cmd.kind = "Audit" =>
        /\ node_last.reply.accepted => node_last.reply.response_hash = ExpectedAuditHash
        /\ ~node_last.reply.accepted => node_last.reply.response_hash = EmptyString

\* C23, amended: an audit reply with accepted = true for a shard the node
\* holds carries the hash of the decoded challenge followed by the shard
\* bytes; every other audit reply (rejected, denied, or accepted for a shard
\* the node does not hold) carries an empty response_hash.
C23_HashIffAcceptedAndFound ==
    node_last.cmd.kind = "Audit" =>
        /\ node_last.reply.found = (is_peer_allowed(allowlist, node_last.peer)
                                     /\ AuditedShard.found)
        /\ node_last.reply.response_hash =
              IF node_last.reply.accepted /\ node_last.reply.found
              THEN ExpectedAuditHash ELSE EmptyString

C23_Witness ==
    /\ node_last.cmd.kind = "Audit"
    /\ node_last.reply.accepted /\ node_last.reply.found
    /\ node_last.reply.response_hash = sha256_hex(<<<<"c1">>, <<7, 9>>>>)

\* The reply says no: stored, found, accepted or deleted is false.
NegativeReply(reply) ==
    CASE reply.kind = "Store" -> ~reply.stored
      [] reply.kind = "Retrieve" -> ~reply.found
      [] reply.kind = "Audit" -> ~reply.accepted /\ ~reply.found
      [] reply.kind = "Delete" -> ~reply.deleted

\* The reply passes the verification a client makes of a reply of its kind
\* from the node.
VerifiesAsProof(cmd, reply) ==
    LET node_peer == PeerIdOfKey(NodeKeypair)
    IN  CASE reply.kind = "Store" ->
                verify_receipt(reply, node_peer, cmd.cid, Len(cmd.data))
          [] reply.kind = "Retrieve" -> verify_proof(reply, node_peer, cmd.cid)
          [] reply.kind = "Audit" ->
                verify_audit(reply, node_peer, cmd.cid, cmd.challenge_hex, cmd.nonce_hex)
          [] reply.kind = "Delete" ->
                verify_signature(node_peer, reply.public_key, reply.signature,
                                 deletion_payload(cmd.cid, reply.timestamp_ms))

\* C24: on a node with a non-empty allowlist, a request from a peer outside
\* it gets the negative reply of its kind with an empty signature and an
\* empty public key, which does not verify as a proof of the node.
C24_DeniedReplyUnsigned ==
    (/\ node_last.cmd.kind # "None"
     /\ allowlist # {}
     /\ node_last.peer \notin allowlist) =>
        /\ node_last.reply.kind = node_last.cmd.kind
        /\ NegativeReply(node_last.reply)
        /\ node_last.reply.signature = EmptyBytes
        /\ node_last.reply.public_key = EmptyBytes
        /\ ~VerifiesAsProof(node_last.cmd, node_last.reply)

C24_Witness ==
    /\ allowlist # {}
    /\ node_last.peer \notin allowlist
    /\ node_last.cmd.kind = "Retrieve"
    /\ retrieve_chunk(node_last.cmd.cid).found
    /\ ~node_last.reply.found

\* C25: after any sequence of save and delete calls the used-bytes counter
\* is at most the node's capacity, and a save that returned false wrote
\* nothing.
C25_UsedWithinCapacity ==
    /\ [](get_used_bytes <= StoreCapacity)
    /\ [][(store_last'.op = "save" /\ ~store_last'.ok) => db' = db]_vars

C25_Witness ==
    /\ store_last.op = "save" /\ ~store_last.ok
    /\ get_used_bytes = StoreCapacity
    /\ db[chunk_key(store_last.cid)] # Absent

DaemonFailureReasons ==
    {"p2p dispatch failure", "audit response timeout", "audit signature/response invalid"}

DaemonDecided(c) ==
    LET r == zk_proof_challenges[c]
    IN  \/ r.status = "verified"
        \/ r.status = "failed" /\ r.failure_reason \in DaemonFailureReasons

KeptOf(c) == Len(SelectSeq(pipe.kept, LAMBDA s : s.chunk_index = c))
ChunkIndexes == 0..(pipe.output.chunk_count - 1)
RightSecrets == pipe.password = PipePassword /\ pipe.salt = pipe.output.salt
NotEnoughShards == PipeErr("not enough shards to reconstruct chunk")
DecryptError == PipeErr("decryption failed")

\* C27: reconstruct_bytes over any sub-list of process_bytes's shards that
\* keeps at least K shards of every chunk, with the password and the salt of
\* the run, returns the input bytes.
C27_RoundTrip ==
    (/\ pipe.pc = "reconstructed"
     /\ RightSecrets
     /\ \A c \in ChunkIndexes : KeptOf(c) >= pipe.cfg.data_shards)
        => pipe.result.kind = "Ok" /\ pipe.result.bytes = pipe.input

C27_Witness ==
    /\ pipe.pc = "reconstructed" /\ RightSecrets
    /\ Len(pipe.input) = MaxInputLen
    /\ pipe.cfg.parity_shards = 2
    /\ \A c \in ChunkIndexes : KeptOf(c) = pipe.cfg.data_shards
    /\ \A i \in 1..Len(pipe.kept) : pipe.kept[i].shard_index >= pipe.cfg.data_shards
    /\ pipe.result = PipeOk(pipe.input)

\* C28: with exactly K shards of every chunk the reconstruction succeeds;
\* with only K-1 shards of a chunk it fails with the not-enough-shards error.
C28_ThresholdIsK ==
    (pipe.pc = "reconstructed" /\ RightSecrets) =>
        /\ (\A c \in ChunkIndexes : KeptOf(c) = pipe.cfg.data_shards)
              => pipe.result.kind = "Ok"
        /\ (\E c \in ChunkIndexes : KeptOf(c) = pipe.cfg.data_shards - 1)
              => pipe.result = NotEnoughShards

C28_Witness ==
    /\ pipe.pc = "reconstructed" /\ RightSecrets
    /\ KeptOf(0) = pipe.cfg.data_shards
    /\ \E c \in ChunkIndexes : KeptOf(c) = pipe.cfg.data_shards - 1
    /\ pipe.result = NotEnoughShards

FirstKeptChunk ==
    CHOOSE c \in {pipe.kept[i].chunk_index : i \in 1..Len(pipe.kept)} :
        \A i \in 1..Len(pipe.kept) : c <= pipe.kept[i].chunk_index

\* C29 as stated: with a wrong password, reconstruct_bytes over the shards
\* of a run returns the decryption error.
C29_WrongPasswordIsDecryptError ==
    (/\ pipe.pc = "reconstructed"
     /\ pipe.password # PipePassword
     /\ pipe.kept = pipe.output.shards)
        => pipe.result = DecryptError

\* C29, amended: with a wrong password, reconstruct_bytes over a non-empty
\* shard list never returns bytes; the error is the decryption error when the
\* first chunk in the list has at least K shards; over the empty list (all
\* that an empty input produces) it returns the empty bytes.
C29_WrongPasswordNeverWrongBytes ==
    (pipe.pc = "reconstructed" /\ pipe.password # PipePassword) =>
        IF pipe.kept = << >> THEN pipe.result = PipeOk(<< >>)
        ELSE /\ pipe.result.kind = "Err"
             /\ KeptOf(FirstKeptChunk) >= pipe.cfg.data_shards
                   => pipe.result = DecryptError

C29_Witness ==
    /\ pipe.pc = "reconstructed"
    /\ pipe.password # PipePassword /\ pipe.salt = pipe.output.salt
    /\ Len(pipe.input) = MaxInputLen
    /\ pipe.kept = pipe.output.shards
    /\ pipe.result = DecryptError

\* The number of observations, counted back from the current one, on which
\* the anomaly level was critical without a break.
RECURSIVE CriticalStreak(_)
CriticalStreak(levels) ==
    IF levels = << >> \/ levels[Len(levels)] # "critical" THEN 0
    ELSE 1 + CriticalStreak(SubSeq(levels, 1, Len(levels) - 1))

\* C30: the action evict is emitted only for a peer whose anomaly level was
\* critical on at least 3 consecutive observations, the current one
\* included, and whose confidence is above 0.6.
C30_EvictNeedsCriticalStreak ==
    sentinel.action = "evict" =>
        CriticalStreak(sentinel.levels) >= 3 /\ sentinel.confidence > 600

\* C31: the recommended redundancy multiplier of every output of the engine
\* lies in [1.0, 2.5], whatever the action.
C31_RedundancyInRange ==
    sentinel.action # "" =>
        /\ sentinel.recommended_redundancy_multiplier >= 1000
        /\ sentinel.recommended_redundancy_multiplier <= 2500

\* C32: for every total size, peer count and profile, adaptive_config
\* returns data_shards >= 2 and data_shards + parity_shards <= 12.
C32_ConfigWithinCap ==
    /\ config.cfg.data_shards >= 2
    /\ config.cfg.data_shards + config.cfg.parity_shards <= 12

C32_Witness ==
    /\ config.peer_count = MaxPeerCount
    /\ config.profile = "Resilient"
    /\ config.cfg.data_shards + config.cfg.parity_shards = 12

\* C33: when the reply for a pending request is of another variant than the
\* request's kind, the caller is sent a negative ack, for each of the four
\* kinds of request.
C33_MismatchIsNack ==
    (reply_case.kind # "none" /\ reply_case.response.kind # reply_case.kind) =>
        /\ reply_case.ack # NoAck
        /\ NegativeAck(reply_case.ack)

\* C34: whenever no PUT is in progress (and none of its dispatch tasks is
\* left), every placement row refers to an object that has a catalog row.
C34_PlacementHasObject ==
    (put.pc \in {"idle", "done"} /\ shard_tasks = 0 /\ del.pc \in {"idle", "done"}) =>
        \A row \in object_shards : \E o \in objects : o.cid = row.object_cid

\* C35: a GET answered 200 carries exactly the plaintext that was PUT, for
\* every body length; when the decoding or the decryption of the collected
\* shards does not succeed, the answer is not 200.
C35_GetReturnsPlaintext ==
    (get.pc = "done" /\ get.status = 200) => get.body = Bytes(put.body)

\* C36: once a bucket is provisioned for one account, a request on it by
\* another account is rejected (it is never answered Ok) and the bucket
\* keeps a single owner, also when requests of two accounts interleave.
C36_SingleBucketOwner ==
    /\ Cardinality({b.owner_email : b \in buckets}) <= 1
    /\ \A r \in AuthRequests :
          (authz[r].pc = "done" /\ authz[r].owners_before \ {authz[r].email} # {})
              => authz[r].status = 403

\* C37: after any sequence of connection-established and connection-closed
\* events, the peer address table has an entry for exactly the peers that
\* still hold a connection from an IP address, so a peer that is still
\* connected from an IP address stays eligible for Store placement when one of
\* its connections closes.
C37_AddressTableMatchesConnections ==
    \A p \in DOMAIN conns :
        (p \in DOMAIN peer_ips) <=> (\E i \in 1..Len(conns[p]) : conns[p][i] # NoIp)

AllReturned == \A t \in StoreThreads : store_threads[t].pc = "idle"

\* C38: when save and delete calls on one block store run concurrently from
\* several threads, then once all of them have returned the used-bytes
\* counter equals the sum of the stored ciphertext lengths and does not
\* exceed the capacity.
C38_ConcurrentCounterIsSum ==
    AllReturned =>
        /\ get_used_bytes = SumLens(db, Cids)
        /\ get_used_bytes <= max_bytes

\* C39: no repair-daemon sweep changes an object's recorded shard count to a
\* value different from the number of shards the object was encoded and
\* placed with.
C39_SweepKeepsShardCount ==
    [][(RepairSweep \/ ThunderingHerdSweep) =>
          \A o \in objects' : o.shards = total_shards]_vars

\* C40: reconstruct_bytes returns bytes only when they are the whole
\* original input: over a shard list from which every shard of some chunk is
\* missing (the empty list for a non-empty input included) it returns an
\* error, never a shorter byte string.
C40_BytesAreWholeInput ==
    (pipe.pc = "reconstructed" /\ RightSecrets /\ pipe.result.kind = "Ok")
        => pipe.result.bytes = pipe.input
====
